---------------------------- MODULE Spec2Model ----------------------------
(***************************************************************************)
(* Pose network model of epic_pose_wrangler v2: RBFNode (model/api.py),    *)
(* UEPoseBlenderNode (model/pose_blender.py) and the UERBFAPI facade       *)
(* (v2/main.py).                                                           *)
(*                                                                         *)
(* The host scene is modelled by what the code reads and writes:           *)
(*   - a multi attribute is a sparse array; the solver's inputs and        *)
(*     targets are only ever written at index size() and cleared from 0,   *)
(*     so they stay dense and are sequences (code index i = position i+1); *)
(*     a pose blender's poses and weights are written at caller-chosen     *)
(*     indices and are functions over a set of indices;                    *)
(*   - a query (getAttr, listConnections, xform -q) changes nothing; the   *)
(*     one exception is the query api.py:767 makes to create an output     *)
(*     instance; reading an element that is not there yields the           *)
(*     attribute's default;                                                *)
(*   - a matrix is one of the abstract values Mats, DefaultMatrix being    *)
(*     the identity.                                                       *)
(* An exception leaves whatever was written before it was raised.          *)
(*                                                                         *)
(* inputsRest is written by add_driver/remove_drivers and never read, and  *)
(* blendshapes are not part of the pose network proper: both are left out. *)
(***************************************************************************)
EXTENDS Integers, Sequences, FiniteSets, TLC

\* ------------------------------------------------------------------ bounds
\* Longest driver-matrix list a caller passes to add_pose / update_pose.
MaxMatrices == 2
\* Longest controller-matrix list a caller passes.
MaxControllerMatrices == 1
\* Number of calls made on a scene that starts empty.
MaxCalls == 4

\* Longest node name, in tokens, a mirrored name is derived from.
MaxNameTokens == 6
\* Number of mirrored-name derivations chained on one mapping.
MaxDerivations == 2

\* Most drivers a solver is given in the specification of driver removal.
MaxDrivers == 3
\* the targets of a solver whose poses are named by name_unnamed_poses
MaxTargets == 3

\* --------------------------------------------------------------- universes
\* the solver nodes a scene can hold, in the order cmds.ls lists them
SolverOrder == <<"arm_l_UERBFSolver", "arm_r_UERBFSolver">>
Solvers == {SolverOrder[i] : i \in DOMAIN SolverOrder}
DriverPool == {"J_l_shoulder", "J_r_shoulder"}
DrivenPool == {"J_l_elbow", "J_r_elbow"}
Transforms == DriverPool \cup DrivenPool
PoseNames == {"default", "raised", "bent"}
Mats == {0, 1}
DefaultMatrix == 0
NoSolver == "None"

VARIABLES
    solver,     \* [Solvers -> solver node]           the UERBFSolverNode nodes
    blender,    \* [Transforms -> pose blender node]  keyed by driven transform
    local,      \* [Transforms -> Mats]               live local matrices
    current,    \* UERBFAPI._current_solver
    last,       \* the last call: operation, solver, outcome
    calls,      \* number of calls made so far
    scene,      \* the transforms that exist in the scene
    mapping,    \* UERBFAPI._mirror_mapping: its source side
    context,    \* current_solver of the context last delivered to the extensions
    derived,    \* a client's chain of mirrored-name derivations
    rotation,   \* a driven transform's rotation and what mirror_pose makes of it
    naming      \* a name_unnamed_poses call: its position and its locals

vars == <<solver, blender, local, current, last, calls, scene, mapping, context, derived,
          rotation, naming>>

\* ----------------------------------------------------------- small helpers
Range(f) == {f[x] : x \in DOMAIN f}

RECURSIVE SetToSeq(_)
SetToSeq(S) ==
    IF S = {} THEN <<>>
    ELSE LET m == CHOOSE x \in S : \A y \in S : x <= y
         IN <<m>> \o SetToSeq(S \ {m})

\* utils.get_attr_array: the values of a sparse array in index order
ArrayValues(f) == LET ix == SetToSeq(DOMAIN f) IN [i \in 1..Len(ix) |-> f[ix[i]]]

\* cmds.getAttr on one element of a sparse matrix array
ReadElement(f, i) == IF i \in DOMAIN f THEN f[i] ELSE DefaultMatrix

\* cmds.setAttr / connectAttr on one element of a sparse array
WriteElement(f, i, v) == [j \in (DOMAIN f) \cup {i} |-> IF j = i THEN v ELSE f[j]]

\* cmds.removeMultiInstance on one element (absent element: nothing to do)
RemoveElement(f, i) == [j \in (DOMAIN f) \ {i} |-> f[j]]

RemoveAt(q, i) == [j \in 1..(Len(q) - 1) |-> IF j < i THEN q[j] ELSE q[j + 1]]

Reverse(q) == [j \in 1..Len(q) |-> q[Len(q) + 1 - j]]

SeqsUpTo(S, n) == UNION {[1..k -> S] : k \in 0..n}

\* ------------------------------------------------------------ node records
DefaultCfg ==
    [mode |-> 0, radius |-> 0, automaticRadius |-> 0, weightThreshold |-> 0,
     distanceMethod |-> 0, normalizeMethod |-> 0, functionType |-> 0,
     twistAxis |-> 0, inputMode |-> 0]

\* RBFNode.set_defaults: mode 'Interpolative', radius 45, automaticRadius off
SetDefaults(cfg) == [cfg EXCEPT !.mode = 1, !.radius = 45, !.automaticRadius = 0]

\* targetFunctionType, targetDistanceMethod and targetScaleFactor of a newly
\* created element of targets
DefaultProperties ==
    [function_type |-> "DefaultFunctionType", distance_method |-> "DefaultMethod",
     scale_factor |-> 1]

NoSolverNode ==
    [exists |-> FALSE, drivers |-> <<>>, controllers |-> <<>>, targets |-> <<>>,
     outputs |-> {}, poseBlenders |-> <<>>, pbAttr |-> FALSE, cfg |-> DefaultCfg]

NoBlenderNode ==
    [exists |-> FALSE, rbfSolver |-> NoSolver, poses |-> <<>>, weights |-> <<>>,
     edit |-> TRUE, basePose |-> DefaultMatrix]

\* A world is the scene plus the exception (if any) an operation raised.
World(sv, bl, loc) == [sv |-> sv, bl |-> bl, loc |-> loc, err |-> "ok"]
Ok(w) == w.err = "ok"
Raise(w, e) == [w EXCEPT !.err = e]
\* one statement after another: what F makes of the world w, unless w holds
\* an exception
Then(w, F(_)) == CHOOSE r \in {IF Ok(v) THEN F(v) ELSE v : v \in {w}} : TRUE


\* --------------------------------------------------------- RBFNode queries
NumDrivers(w, s) == Len(w.sv[s].drivers)
NumControllers(w, s) == Len(w.sv[s].controllers)
NumPoses(w, s) == Len(w.sv[s].targets)
HasDriver(w, s, t) == t \in Range(w.sv[s].drivers)
HasController(w, s, t) == t \in Range(w.sv[s].controllers)

\* RBFNode.pose_index: code index of the first target with that name, or -1
PoseIndex(w, s, name) ==
    LET tg == w.sv[s].targets
        hits == {i \in 1..Len(tg) : tg[i].name = name}
    IN IF hits = {} THEN -1 ELSE (CHOOSE i \in hits : \A j \in hits : i <= j) - 1

\* the iteration `for x in cmds.listConnections(solver.poseBlenders)` raises
\* TypeError when the attribute exists and nothing is connected to it
BlenderLoopErr(w, s) ==
    IF w.sv[s].pbAttr /\ w.sv[s].poseBlenders = <<>> THEN "TypeError" ELSE "ok"

\* RBFNode.pose: the exception it raises for the target at position i, or "ok"
PoseErr(w, s, i) ==
    LET n == w.sv[s]
        t == n.targets[i]
    IN IF Len(t.values) = 0 THEN "InvalidPose:no driver indices"
       ELSE IF Len(t.values) # Len(n.drivers) THEN "InvalidPose:driver indices"
       ELSE IF Len(t.controllers) # Len(n.controllers) THEN "RuntimeError:controller indices"
       ELSE BlenderLoopErr(w, s)

\* RBFNode.poses: calls pose() for every named target, in index order
PosesErr(w, s) ==
    LET tg == w.sv[s].targets
        bad == {i \in 1..Len(tg) : tg[i].name # "" /\ PoseErr(w, s, i) # "ok"}
    IN IF bad = {} THEN "ok"
       ELSE PoseErr(w, s, CHOOSE i \in bad : \A j \in bad : i <= j)

\* RBFNode.has_pose: `pose_name in self.poses()` (when poses() does not raise)
HasPose(w, s, name) ==
    name # "" /\ \E i \in 1..Len(w.sv[s].targets) : w.sv[s].targets[i].name = name

\* RBFNode.pose()['driven']: the matrix each pose blender holds at the index
DrivenOfPose(w, s, idx) ==
    [t \in Range(w.sv[s].poseBlenders) |-> ReadElement(w.bl[t].poses, idx)]

\* the driven transforms a solver binds (RBFNode.driven_nodes)
BindingsOf(w, s) == Range(w.sv[s].poseBlenders)

\* RBFNode.get_solver_edit_status
GetSolverEditStatus(sv, bl, s) ==
    sv[s].pbAttr /\ \E t \in Range(sv[s].poseBlenders) : bl[t].edit

\* ------------------------------------------------------- UEPoseBlenderNode
\* UEPoseBlenderNode.set_pose with index >= 0: matrix None means the driven
\* transform's current local matrix
BlenderSetPose(w, t, idx, matrix) ==
    [w EXCEPT !.bl[t].poses = WriteElement(@, idx, matrix)]

BlenderSetPoseFromCurrent(w, t, idx) == BlenderSetPose(w, t, idx, w.loc[t])

\* UEPoseBlenderNode.add_pose_from_current with index >= 0
BlenderAddPoseFromCurrent(w, t, idx) == BlenderSetPose(w, t, idx, w.loc[t])

\* the index set_pose, add_pose_from_current and set_weight choose when they
\* are given index < 0: len(getAttr(array, multiIndices=True) or [0]) - 1
NextAvailableIndex(f) == (IF DOMAIN f = {} THEN 1 ELSE Cardinality(DOMAIN f)) - 1

\* UEPoseBlenderNode.set_weight(index, in_float_attr = solver.outputs[out]):
\* the connection also brings the solver's output element into existence
BlenderSetWeight(w, s, t, idx, out) ==
    [w EXCEPT !.bl[t].weights = WriteElement(@, idx, out),
              !.sv[s].outputs = @ \cup {out}]

\* UEPoseBlenderNode.edit setter (the driven transform keeps its matrix)
BlenderSetEdit(w, t, value) == [w EXCEPT !.bl[t].edit = value]

\* UEPoseBlenderNode.create(driven_transform) followed by the base_pose setter
BlenderCreate(w, t) ==
    [w EXCEPT !.bl[t] = [exists |-> TRUE, rbfSolver |-> NoSolver,
                         poses |-> WriteElement(<<>>, 0, w.loc[t]),
                         weights |-> <<>>, edit |-> TRUE,
                         basePose |-> w.loc[t]]]

\* find_by_transform that never finds the transform's pose blender
FindByTransform_FindsNone(w, t) == FALSE

\* UEPoseBlenderNode.find_by_transform
FindByTransform(w, t) == w.bl[t].exists

\* UEPoseBlenderNode.delete_pose(index): copies the values, removes the
\* elements 0..len-1, pops `index` from the copy (IndexError when the copy is
\* shorter) and writes the rest back at 0..len-2
RECURSIVE RemoveRange(_, _)
RemoveRange(f, n) == IF n = 0 THEN f ELSE RemoveRange(RemoveElement(f, n - 1), n - 1)

RECURSIVE WriteRange(_, _, _)
WriteRange(f, q, n) ==
    IF n = 0 THEN f ELSE WriteElement(WriteRange(f, q, n - 1), n - 1, q[n])

BlenderDeletePose(w, t, idx) ==
    LET copy == ArrayValues(w.bl[t].poses)
        cleared == RemoveRange(w.bl[t].poses, Len(copy))
    IN IF idx >= Len(copy)
       THEN Raise([w EXCEPT !.bl[t].poses = cleared], "IndexError")
       ELSE LET rest == RemoveAt(copy, idx + 1)
            IN [w EXCEPT !.bl[t].poses = WriteRange(cleared, rest, Len(rest))]

\* UEPoseBlenderNode.go_to_pose(index)
BlenderGoToPose(w, t, idx) ==
    [w EXCEPT !.loc[t] = ReadElement(w.bl[t].poses, idx)]


\* ------------------------------------------------------- RBFNode: creation
\* RBFNode.create(name): a new node with set_defaults applied
Create(w, s) ==
    [w EXCEPT !.sv[s] = [NoSolverNode EXCEPT !.exists = TRUE,
                                             !.cfg = SetDefaults(DefaultCfg)]]

\* ------------------------------------------------------- RBFNode: drivers
\* the driver guard off by one: drivers may still be added with two poses
DriverLimitExceeded_OffByOne(w, s) == NumPoses(w, s) > 2

\* the guard of add_driver (api.py:333) and of add_drivers (main.py:247)
DriverLimitExceeded(w, s) == NumPoses(w, s) > 1

\* the loop of RBFNode.add_driver: each transform is checked and connected in
\* turn, so a duplicate is found after its predecessors were connected
RECURSIVE AddDriverLoop(_, _, _)
AddDriverLoop(w, s, ts) ==
    IF ts = <<>> \/ ~Ok(w) THEN w
    ELSE IF HasDriver(w, s, Head(ts))
         THEN Raise(w, "RuntimeError:already has driver")
         ELSE AddDriverLoop([w EXCEPT !.sv[s].drivers = Append(@, Head(ts))],
                            s, Tail(ts))

\* RBFNode.add_driver(transform_nodes)
AddDriver(w, s, ts) ==
    IF DriverLimitExceeded(w, s)
    THEN Raise(w, "RuntimeError:driver limit")
    ELSE AddDriverLoop(w, s, ts)

\* remove_drivers that reconnects every driver it disconnected
RemainingDrivers_KeepsAll(existing, ts) == Reverse(existing)

\* the remaining drivers of remove_drivers: collected while the existing
\* drivers are walked in reverse (api.py:381-411)
RemainingDrivers(existing, ts) ==
    SelectSeq(Reverse(existing), LAMBDA d : d \notin Range(ts))

\* ---------------------------------------------------- RBFNode: controllers
RECURSIVE AddControllerLoop(_, _, _)
AddControllerLoop(w, s, ts) ==
    IF ts = <<>> \/ ~Ok(w) THEN w
    ELSE IF HasController(w, s, Head(ts))
         THEN Raise(w, "RuntimeError:already has controller")
         ELSE AddControllerLoop([w EXCEPT !.sv[s].controllers = Append(@, Head(ts))],
                                s, Tail(ts))

\* RBFNode.add_controller(transform_nodes)
AddController(w, s, ts) ==
    IF NumPoses(w, s) # 0
    THEN Raise(w, "RuntimeError:controller after poses")
    ELSE AddControllerLoop(w, s, ts)

\* ------------------------------------------------ RBFNode: driven transforms
\* connect outputs[k] to weights[i] for the i-th existing output k
RECURSIVE ConnectWeights(_, _, _, _, _)
ConnectWeights(w, s, t, outs, i) ==
    IF i > Len(outs) THEN w
    ELSE ConnectWeights(BlenderSetWeight(w, s, t, i - 1, outs[i]), s, t, outs, i + 1)

\* one round of the loop of add_driven_transforms
AddDrivenTransform(w, s, t, edit) ==
    IF FindByTransform(w, t) THEN w      \* logged and skipped
    ELSE LET w1 == BlenderCreate(w, t)
             w2 == [w1 EXCEPT !.bl[t].rbfSolver = s,
                              !.sv[s].pbAttr = TRUE,
                              !.sv[s].poseBlenders = Append(@, t)]
             w3 == ConnectWeights(w2, s, t, SetToSeq(w2.sv[s].outputs), 1)
         IN BlenderSetEdit(w3, t, edit)

\* RBFNode.add_driven_transforms(driven_nodes, edit)
RECURSIVE AddDrivenTransforms(_, _, _, _)
AddDrivenTransforms(w, s, ts, edit) ==
    IF ts = <<>> THEN w
    ELSE AddDrivenTransforms(AddDrivenTransform(w, s, Head(ts), edit), s, Tail(ts), edit)

\* --------------------------------------------------------- RBFNode: poses
\* add_pose without its check of the driver-matrix list's length
AddPoseArityErr_DriversUnchecked(w, s, matrices, cmats) ==
    IF cmats # <<>> /\ Len(cmats) # NumControllers(w, s)
    THEN "InvalidPose:number of controller matrices"
    ELSE IF NumControllers(w, s) # 0 /\ cmats = <<>>
         THEN "InvalidPose:number of controller matrices"
    ELSE "ok"

\* the checks add_pose makes on its matrix lists (api.py:722-729)
AddPoseArityErr(w, s, matrices, cmats) ==
    IF Len(matrices) # NumDrivers(w, s) THEN "InvalidPose:number of matrices"
    ELSE IF cmats # <<>> /\ Len(cmats) # NumControllers(w, s)
         THEN "InvalidPose:number of controller matrices"
    ELSE IF NumControllers(w, s) # 0 /\ cmats = <<>>
         THEN "InvalidPose:number of controller matrices"
    ELSE "ok"

\* add_pose ignoring driven_matrices: always the current local matrix
DrivenMatrixFor_CurrentOnly(w, t, dmats) == w.loc[t]

\* the matrix a pose blender records for a new pose (api.py:753-760)
DrivenMatrixFor(w, t, dmats) == IF t \in DOMAIN dmats THEN dmats[t] ELSE w.loc[t]

\* the pose blender loop of add_pose (api.py:746-761)
RECURSIVE AddPoseBlenders(_, _, _, _, _)
AddPoseBlenders(w, s, q, idx, dmats) ==
    IF q = <<>> THEN w
    ELSE LET t == Head(q)
             w1 == BlenderSetPose(w, t, idx, DrivenMatrixFor(w, t, dmats))
             w2 == BlenderSetWeight(w1, s, t, idx, idx)
         IN AddPoseBlenders(w2, s, Tail(q), idx, dmats)

\* RBFNode.add_pose: its function_type, distance_method and scale_factor
\* arguments are written nowhere, so the new target has the node's defaults
AddPose(w, s, name, matrices, cmats, dmats, enable) ==
    IF NumDrivers(w, s) = 0 THEN Raise(w, "InvalidPose:no driver")
    ELSE IF PosesErr(w, s) # "ok" THEN Raise(w, PosesErr(w, s))
    ELSE IF HasPose(w, s, name) THEN Raise(w, "InvalidPose:already a pose")
    ELSE IF AddPoseArityErr(w, s, matrices, cmats) # "ok"
         THEN Raise(w, AddPoseArityErr(w, s, matrices, cmats))
    ELSE
      LET idx == NumPoses(w, s)
          w1 == [w EXCEPT !.sv[s].targets =
                     Append(@, [name |-> "", values |-> matrices,
                                controllers |-> cmats, enable |-> TRUE,
                                properties |-> DefaultProperties])]
      IN IF BlenderLoopErr(w1, s) # "ok" THEN Raise(w1, BlenderLoopErr(w1, s))
         ELSE LET w2 == AddPoseBlenders(w1, s, w1.sv[s].poseBlenders, idx, dmats)
              IN [w2 EXCEPT !.sv[s].targets[idx + 1].name = name,
                            !.sv[s].targets[idx + 1].enable = enable,
                            !.sv[s].outputs = @ \cup {idx}]

\* setAttr on targetValues[0..len-1] / targetControllers[0..len-1]
Overwrite(old, new) ==
    [i \in 1..(IF Len(new) > Len(old) THEN Len(new) ELSE Len(old)) |->
        IF i <= Len(new) THEN new[i] ELSE old[i]]

\* the pose blender loop of update_pose (api.py:805-809)
RECURSIVE UpdatePoseBlenders(_, _, _)
UpdatePoseBlenders(w, q, idx) ==
    IF q = <<>> THEN w
    ELSE UpdatePoseBlenders(BlenderSetPoseFromCurrent(w, Head(q), idx), Tail(q), idx)

\* RBFNode.update_pose
UpdatePose(w, s, name, matrices, cmats) ==
    IF PosesErr(w, s) # "ok" THEN Raise(w, PosesErr(w, s))
    ELSE IF ~HasPose(w, s, name) THEN Raise(w, "RuntimeError:pose does not exist")
    ELSE
      LET idx == PoseIndex(w, s, name)
          w1 == [w EXCEPT !.sv[s].targets[idx + 1].values = Overwrite(@, matrices),
                          !.sv[s].targets[idx + 1].controllers = Overwrite(@, cmats)]
      IN IF BlenderLoopErr(w1, s) # "ok" THEN Raise(w1, BlenderLoopErr(w1, s))
         ELSE UpdatePoseBlenders(w1, w1.sv[s].poseBlenders, idx)

\* the current object-space matrices of a list of transforms
CurrentMatrices(w, ts) == [i \in 1..Len(ts) |-> w.loc[ts[i]]]

\* RBFNode.add_pose_from_current
AddPoseFromCurrent(w, s, name, update) ==
    LET matrices == CurrentMatrices(w, w.sv[s].drivers)
        cmats == CurrentMatrices(w, w.sv[s].controllers)
    IN IF update THEN UpdatePose(w, s, name, matrices, cmats)
       ELSE AddPose(w, s, name, matrices, cmats, <<>>, TRUE)

\* RBFNode.remove_drivers
RemoveDrivers(w, s, ts) ==
    LET existing == w.sv[s].drivers
        w1 == IF existing = <<>> THEN w
              ELSE [w EXCEPT !.sv[s].drivers = RemainingDrivers(existing, ts),
                             !.sv[s].targets = <<>>]
    IN IF w1.sv[s].drivers # <<>> THEN AddPoseFromCurrent(w1, s, "default", FALSE)
       ELSE w1

\* RBFNode.poses: the data of every named target, in index order
Poses(w, s) ==
    LET tg == w.sv[s].targets
        named == SelectSeq([i \in 1..Len(tg) |-> i], LAMBDA i : tg[i].name # "")
    IN [k \in 1..Len(named) |->
          [name |-> tg[named[k]].name,
           drivers |-> tg[named[k]].values,
           controllers |-> tg[named[k]].controllers,
           driven |-> DrivenOfPose(w, s, PoseIndex(w, s, tg[named[k]].name)),
           properties |-> tg[named[k]].properties,
           target_enable |-> tg[named[k]].enable]]

\* the loop `for pose_name, pose_data in poses.items(): add_pose(...)` of
\* delete_pose (api.py:1023-1029) and of create_from_data (api.py:111-125)
RECURSIVE AddPoses(_, _, _)
AddPoses(w, s, q) ==
    IF q = <<>> \/ ~Ok(w) THEN w
    ELSE AddPoses(AddPose(w, s, Head(q).name, Head(q).drivers, Head(q).controllers,
                          Head(q).driven, Head(q).target_enable),
                  s, Tail(q))

\* the pose blender loop of delete_pose (api.py:1016-1020)
RECURSIVE DeletePoseBlenders(_, _, _)
DeletePoseBlenders(w, q, idx) ==
    IF q = <<>> \/ ~Ok(w) THEN w
    ELSE DeletePoseBlenders(BlenderDeletePose(w, Head(q), idx), Tail(q), idx)

\* delete_pose removing the targets before it looks for the pose name
DeletePose_RemovesFirst(w, s, name) ==
    IF PosesErr(w, s) # "ok" THEN Raise(w, PosesErr(w, s))
    ELSE IF ~HasPose(w, s, name)
         THEN Raise([w EXCEPT !.sv[s].targets = <<>>], "InvalidPose:does not exist")
    ELSE
      LET poses == Poses(w, s)
          idx == PoseIndex(w, s, name)
          at == CHOOSE k \in 1..Len(poses) : poses[k].name = name
          w1 == [w EXCEPT !.sv[s].targets = SubSeq(@, Len(poses) + 1, Len(@))]
          w2 == IF BlenderLoopErr(w1, s) # "ok" THEN Raise(w1, BlenderLoopErr(w1, s))
                ELSE DeletePoseBlenders(w1, w1.sv[s].poseBlenders, idx)
      IN AddPoses(w2, s, RemoveAt(poses, at))

\* RBFNode.delete_pose: the targets 0..len(poses)-1 are removed, every pose
\* blender deletes the index, and the remaining poses are added again
DeletePose(w, s, name) ==
    IF PosesErr(w, s) # "ok" THEN Raise(w, PosesErr(w, s))
    ELSE IF ~HasPose(w, s, name) THEN Raise(w, "InvalidPose:does not exist")
    ELSE
      LET poses == Poses(w, s)
          idx == PoseIndex(w, s, name)
          at == CHOOSE k \in 1..Len(poses) : poses[k].name = name
          w1 == [w EXCEPT !.sv[s].targets = SubSeq(@, Len(poses) + 1, Len(@))]
          w2 == IF BlenderLoopErr(w1, s) # "ok" THEN Raise(w1, BlenderLoopErr(w1, s))
                ELSE DeletePoseBlenders(w1, w1.sv[s].poseBlenders, idx)
      IN AddPoses(w2, s, RemoveAt(poses, at))

\* the pose blender loop of go_to_pose (api.py:682-685)
RECURSIVE GoToPoseBlenders(_, _, _)
GoToPoseBlenders(w, q, idx) ==
    IF q = <<>> THEN w
    ELSE GoToPoseBlenders(BlenderGoToPose(w, Head(q), idx), Tail(q), idx)

\* cmds.xform(node, matrix=m) for each node of a list, in order
RECURSIVE SetMatrices(_, _, _)
SetMatrices(w, ts, ms) ==
    IF ts = <<>> THEN w
    ELSE SetMatrices([w EXCEPT !.loc[Head(ts)] = Head(ms)], Tail(ts), Tail(ms))

\* RBFNode.go_to_pose
GoToPose(w, s, name) ==
    LET idx == PoseIndex(w, s, name)
    IN IF idx = -1 THEN Raise(w, "InvalidPose:not found")
       ELSE IF PoseErr(w, s, idx + 1) # "ok" THEN Raise(w, PoseErr(w, s, idx + 1))
       ELSE
         LET t == w.sv[s].targets[idx + 1]
             w1 == IF NumControllers(w, s) = 0
                   THEN SetMatrices(w, w.sv[s].drivers, t.values)
                   ELSE SetMatrices(w, w.sv[s].controllers, t.controllers)
         IN IF BlenderLoopErr(w1, s) # "ok" THEN Raise(w1, BlenderLoopErr(w1, s))
            ELSE GoToPoseBlenders(w1, w1.sv[s].poseBlenders, idx)

\* rename_pose without its check of the new name
RenameClash_Unchecked(w, s, name) == FALSE

\* the check rename_pose makes on the new name (api.py:1742)
RenameClash(w, s, name) == HasPose(w, s, name)

\* RBFNode.rename_pose(pose_index, pose_name)
RenamePose(w, s, idx, name) ==
    IF NumPoses(w, s) = 0 THEN w
    ELSE IF idx \notin 0..(NumPoses(w, s) - 1) THEN Raise(w, "RuntimeError:index not found")
    ELSE IF PosesErr(w, s) # "ok" THEN Raise(w, PosesErr(w, s))
    ELSE IF RenameClash(w, s, name) THEN Raise(w, "RuntimeError:already exists")
    ELSE [w EXCEPT !.sv[s].targets[idx + 1].name = name]

\* '{}_{}'.format(basename, pose_index)
FormatPoseName(basename, pose_index) == basename \o "_" \o ToString(pose_index)

\* RBFNode.is_pose_muted(pose_name)
IsPoseMuted(w, s, name) == ~w.sv[s].targets[PoseIndex(w, s, name) + 1].enable

\* mute_pose that can mute a pose and never unmute it
MutePose_Sticky(w, s, name, mute) ==
    LET idx == PoseIndex(w, s, name)
    IN IF idx = -1 THEN Raise(w, "RuntimeError:no such element")
       ELSE [w EXCEPT !.sv[s].targets[idx + 1].enable = FALSE]

\* RBFNode.mute_pose(pose_name, mute)
MutePose(w, s, name, mute) ==
    LET idx == PoseIndex(w, s, name)
    IN IF idx = -1 THEN Raise(w, "RuntimeError:no such element")
       ELSE [w EXCEPT !.sv[s].targets[idx + 1].enable = ~mute]

\* ------------------------------------------------- RBFNode: mirrored names
\* A node name is a sequence of tokens: "_" or a word, a maximal run of
\* letters and digits (two words never follow each other).
IsWord(t) == t # "_"

\* MirrorMapping.source_solver_syntax / source_transform_syntax of the
\* MetaHuman mapping, for a source side
SideSyntax(side) == IF side = "left" THEN <<"_", "l", "_">> ELSE <<"_", "r", "_">>

\* the side MirrorMapping.source_side's setter makes the target side
OtherSide(side) == IF side = "left" THEN "right" ELSE "left"

\* re.match(expression, name).groups() for the expression
\* ([a-zA-Z0-9]+)?(_[lr]{1}_)([a-zA-Z0-9]+): <<prefix, side, suffix>> with
\* prefix <<>> when the optional group did not take part (None), and <<>> when
\* the name does not match; the match is anchored at the start only
MatchGroups(name) ==
    LET p == IF name # <<>> /\ IsWord(name[1]) THEN 1 ELSE 0
    IN IF /\ Len(name) >= p + 4
          /\ name[p + 1] = "_" /\ name[p + 2] \in {"l", "r"} /\ name[p + 3] = "_"
          /\ IsWord(name[p + 4])
       THEN <<SubSeq(name, 1, p), SubSeq(name, p + 1, p + 3), <<name[p + 4]>>>>
       ELSE <<>>

\* RBFNode._get_mirrored_solver_name: the name it returns, the source side it
\* leaves in the mapping, and the exception it raises (`+= None` is a
\* TypeError)
MirroredSolverName(name, side) ==
    LET g == MatchGroups(name)
    IN IF g = <<>>
       THEN [name |-> <<>>, side |-> side, err |-> "InvalidMirrorMapping"]
       ELSE IF g[1] = <<>>
       THEN [name |-> <<>>, side |-> side, err |-> "TypeError"]
       ELSE IF g[2] = SideSyntax(side)
       THEN [name |-> g[1] \o SideSyntax(OtherSide(side)) \o g[3],
             side |-> side, err |-> "ok"]
       ELSE IF g[2] = SideSyntax(OtherSide(side))
       THEN [name |-> g[1] \o SideSyntax(side) \o g[3],
             side |-> OtherSide(side), err |-> "ok"]
       ELSE [name |-> g[1] \o g[2] \o g[3], side |-> side, err |-> "ok"]

\* ------------------------------------------------------ RBFNode: edit mode
\* RBFNode.find_all: the solver nodes of the scene
FindAll(w) == SelectSeq(SolverOrder, LAMBDA s : w.sv[s].exists)

RECURSIVE SetEditAll(_, _, _)
SetEditAll(w, q, edit) ==
    IF q = <<>> THEN w ELSE SetEditAll(BlenderSetEdit(w, Head(q), edit), Tail(q), edit)

\* "force the base pose" (api.py:1081-1084): every other solver that has a
\* pose named 'default' goes to it
RECURSIVE ForceBasePose(_, _, _)
ForceBasePose(w, s, others) ==
    IF others = <<>> \/ ~Ok(w) THEN w
    ELSE LET o == Head(others)
         IN IF o = s THEN ForceBasePose(w, s, Tail(others))
            ELSE IF PosesErr(w, o) # "ok" THEN Raise(w, PosesErr(w, o))
            ELSE IF HasPose(w, o, "default")
                 THEN ForceBasePose(GoToPose(w, o, "default"), s, Tail(others))
                 ELSE ForceBasePose(w, s, Tail(others))

\* RBFNode.edit_solver(edit)
EditSolver(w, s, edit) ==
    IF BlenderLoopErr(w, s) # "ok" THEN Raise(w, BlenderLoopErr(w, s))
    ELSE ForceBasePose(SetEditAll(w, w.sv[s].poseBlenders, edit), s, FindAll(w))

\* ------------------------------------------- RBFNode: delete, data, rebuild
\* RBFNode.delete: cmds.delete on the solver node alone; a pose blender that
\* was connected to it stays in the scene, still attached to its driven
\* transform, with its rbfSolver and weights connections gone (-1)
Delete(w, s) ==
    [w EXCEPT !.sv[s] = NoSolverNode,
              !.bl = [t \in Transforms |->
                        IF w.bl[t].exists /\ w.bl[t].rbfSolver = s
                        THEN [w.bl[t] EXCEPT !.rbfSolver = NoSolver,
                                             !.weights = [i \in DOMAIN @ |-> -1]]
                        ELSE w.bl[t]]]

\* RBFNode.data (defined when poses() does not raise)
Data(w, s) ==
    [solver_name |-> s,
     drivers |-> w.sv[s].drivers,
     driven_transforms |-> w.sv[s].poseBlenders,
     controllers |-> w.sv[s].controllers,
     poses |-> Poses(w, s),
     cfg |-> w.sv[s].cfg]

\* the loop `if not has_driver(driver): add_driver(driver)` (api.py:96-99)
RECURSIVE AddMissingDrivers(_, _, _)
AddMissingDrivers(w, s, ts) ==
    IF ts = <<>> \/ ~Ok(w) THEN w
    ELSE IF HasDriver(w, s, Head(ts)) THEN AddMissingDrivers(w, s, Tail(ts))
    ELSE AddMissingDrivers(AddDriver(w, s, <<Head(ts)>>), s, Tail(ts))

\* the loop `if not has_controller(c): add_controller(c)` (api.py:102-105)
RECURSIVE AddMissingControllers(_, _, _)
AddMissingControllers(w, s, ts) ==
    IF ts = <<>> \/ ~Ok(w) THEN w
    ELSE IF HasController(w, s, Head(ts)) THEN AddMissingControllers(w, s, Tail(ts))
    ELSE AddMissingControllers(AddController(w, s, <<Head(ts)>>), s, Tail(ts))

\* RBFNode.create_from_data
CreateFromData(w, data) ==
    LET s == data.solver_name
        w0 == IF w.sv[s].exists THEN w ELSE Create(w, s)
        w1 == AddMissingDrivers(w0, s, data.drivers)
        w2 == AddMissingControllers(w1, s, data.controllers)
        w3 == IF Ok(w2) /\ data.driven_transforms # <<>>
              THEN AddDrivenTransforms(w2, s, data.driven_transforms, FALSE)
              ELSE w2
        w4 == AddPoses(w3, s, data.poses)
    IN IF Ok(w4) THEN [w4 EXCEPT !.sv[s].cfg = data.cfg] ELSE w4

\* ---------------------------------------------------------- RBFNode: mirror
\* the tokens of the names of the scene's nodes
NameTokens ==
    [n \in Solvers \cup Transforms |->
        CASE n = "arm_l_UERBFSolver" -> <<"arm", "_", "l", "_", "UERBFSolver">>
          [] n = "arm_r_UERBFSolver" -> <<"arm", "_", "r", "_", "UERBFSolver">>
          [] n = "J_l_shoulder" -> <<"J", "_", "l", "_", "shoulder">>
          [] n = "J_r_shoulder" -> <<"J", "_", "r", "_", "shoulder">>
          [] n = "J_l_elbow" -> <<"J", "_", "l", "_", "elbow">>
          [] n = "J_r_elbow" -> <<"J", "_", "r", "_", "elbow">>]

\* the string `target_rbf_solver_name += group` builds
RECURSIVE Join(_)
Join(q) == IF q = <<>> THEN "" ELSE Head(q) \o Join(Tail(q))

\* The name derived from a node's name and the exception the derivation
\* raises: each replaces the side group by the other side's syntax whichever
\* the mapping's source side is, so neither depends on it.
MirroredNode(n) == Join(MirroredSolverName(NameTokens[n], "left").name)
MirrorErr(n) == MirroredSolverName(NameTokens[n], "left").err

\* RBFNode._get_mirrored_transforms(transforms, mirror_mapping) in a scene
\* that holds the transforms scn: the mirrored names, or the exception
RECURSIVE MirroredTransforms(_, _)
MirroredTransforms(ts, scn) ==
    IF ts = <<>> THEN [names |-> <<>>, err |-> "ok"]
    ELSE IF MirrorErr(Head(ts)) # "ok" THEN [names |-> <<>>, err |-> MirrorErr(Head(ts))]
    ELSE IF MirroredNode(Head(ts)) \notin scn
         THEN [names |-> <<>>, err |-> "InvalidMirrorMapping"]
    ELSE LET rest == MirroredTransforms(Tail(ts), scn)
         IN IF rest.err # "ok" THEN rest
            ELSE [names |-> <<MirroredNode(Head(ts))>> \o rest.names, err |-> "ok"]

\* the matrix mirror_pose gives a driven transform (api.py:896-973): the
\* source's, reflected in X; the rig's two sides are reflections of each
\* other, so the identity stays the identity
MirrorMatrix(m) == 0 - m

\* the loops of mirror_pose that pose the target transforms one after the
\* other: a driver gets the source's rotation (api.py:873-877), a driven
\* transform the source's mirrored matrix (api.py:891-973)
RECURSIVE CopyPose(_, _, _, _)
CopyPose(w, src, tgt, mirrored) ==
    IF src = <<>> THEN w
    ELSE CopyPose([w EXCEPT !.loc[Head(tgt)] =
                       IF mirrored THEN MirrorMatrix(w.loc[Head(src)]) ELSE w.loc[Head(src)]],
                  Tail(src), Tail(tgt), mirrored)

\* RBFNode.mirror up to create_from_data (api.py:1793-1827)
MirrorRebuild(w, s, scn) ==
    LET target == MirroredNode(s)
        d == Data(w, s)
        drivers == MirroredTransforms(w.sv[s].drivers, scn)
        driven == MirroredTransforms(w.sv[s].poseBlenders, scn)
    IN IF MirrorErr(s) # "ok" THEN Raise(w, MirrorErr(s))
       ELSE IF PosesErr(w, s) # "ok" THEN Raise(w, PosesErr(w, s))
       ELSE IF drivers.err # "ok" THEN Raise(w, drivers.err)
       ELSE IF driven.err # "ok" THEN Raise(w, driven.err)
       ELSE CreateFromData(
              IF w.sv[target].exists THEN Delete(w, target) ELSE w,
              [d EXCEPT !.solver_name = target, !.drivers = drivers.names,
                        !.driven_transforms = driven.names, !.poses = <<>>])

\* RBFNode.mirror(mirror_mapping, mirror_poses=False)
MirrorWithoutPoses(w, s, scn) ==
    Then(MirrorRebuild(w, s, scn),
         LAMBDA v : AddPoseFromCurrent(v, MirroredNode(s), "default", FALSE))

\* RBFNode.mirror_pose(pose_name, mirror_mapping), no blendshapes in the scene
MirrorPose(w, s, name, scn) ==
    LET target == MirroredNode(s)
        match == w.sv[target].exists
        drivers == MirroredTransforms(w.sv[s].drivers, scn)
        driven == MirroredTransforms(w.sv[s].poseBlenders, scn)
        w1 == Then(ForceBasePose(w, s, FindAll(w)),
                   LAMBDA v : IF match THEN v ELSE MirrorWithoutPoses(v, s, scn))
        w2 == Then(w1, LAMBDA v : GoToPose(v, s, name))
        w3 == Then(w2, LAMBDA v :
                   IF drivers.err # "ok" THEN Raise(v, drivers.err)
                   ELSE CopyPose(v, v.sv[s].drivers, drivers.names, FALSE))
        w4 == Then(w3, LAMBDA v :
                   IF driven.err # "ok" THEN Raise(v, driven.err)
                   ELSE IF BlenderLoopErr(v, target) # "ok"
                        THEN Raise(v, BlenderLoopErr(v, target))
                   ELSE CopyPose(SetEditAll(v, v.sv[target].poseBlenders, TRUE),
                                 v.sv[s].poseBlenders, driven.names, TRUE))
        w5 == Then(w4, LAMBDA v :
                   IF PosesErr(v, target) # "ok" THEN Raise(v, PosesErr(v, target))
                   ELSE AddPoseFromCurrent(v, target, name, HasPose(v, target, name)))
    IN IF MirrorErr(s) # "ok" THEN Raise(w, MirrorErr(s))
       ELSE Then(w5, LAMBDA v : SetEditAll(v, v.sv[target].poseBlenders, FALSE))

\* the loop `for pose_name in pose_data.keys(): self.mirror_pose(...)`
RECURSIVE MirrorPoses(_, _, _, _)
MirrorPoses(w, s, q, scn) ==
    IF q = <<>> THEN w
    ELSE Then(MirrorPose(w, s, Head(q).name, scn),
              LAMBDA v : MirrorPoses(v, s, Tail(q), scn))

\* mirror that never mirrors the poses
Mirror_DefaultOnly(w, s, scn, mirror_poses) == MirrorWithoutPoses(w, s, scn)

\* RBFNode.mirror(mirror_mapping, mirror_poses)
Mirror(w, s, scn, mirror_poses) ==
    IF ~mirror_poses THEN MirrorWithoutPoses(w, s, scn)
    ELSE Then(Then(MirrorRebuild(w, s, scn),
                   LAMBDA v : MirrorPoses(v, s, Poses(w, s), scn)),
              LAMBDA v : ForceBasePose(v, NoSolver, FindAll(v)))

\* ------------------------------------------- RBFNode.mirror_pose: rotation
\* Matrices are the 3x3 rotation-and-scale part of Maya's 4x4 matrices, as
\* tuples of rows; a rotation is read from that part alone. Angles are in
\* degrees.

\* om.MMatrix.__mul__
MatMul(a, b) ==
    [i \in 1..3 |-> [j \in 1..3 |->
        a[i][1] * b[1][j] + a[i][2] * b[2][j] + a[i][3] * b[3][j]]]

\* om.MMatrix.inverse, for a matrix of determinant 1 or -1: the adjugate
\* divided by the determinant
Inverse(m) ==
    LET nx(i) == (i % 3) + 1
        cof(i, j) == m[nx(i)][nx(j)] * m[nx(nx(i))][nx(nx(j))]
                     - m[nx(i)][nx(nx(j))] * m[nx(nx(i))][nx(j)]
        det == m[1][1] * cof(1, 1) + m[1][2] * cof(1, 2) + m[1][3] * cof(1, 3)
    IN [i \in 1..3 |-> [j \in 1..3 |-> det * cof(j, i)]]

\* MTransformationMatrix(identity).setRotation(MEulerRotation(x, y, z)).asMatrix()
\* for angles that are multiples of 180 degrees (every sine is 0)
EulerAsMatrix(rotate) ==
    LET cos(a) == IF a % 360 = 0 THEN 1 ELSE -1
        cx == cos(rotate[1])
        cy == cos(rotate[2])
        cz == cos(rotate[3])
    IN <<<<cy * cz, 0, 0>>, <<0, cx * cz, 0>>, <<0, 0, cx * cy>>>>

\* MTransformationMatrix(m).rotation(asQuaternion=True) for a rotation by
\* 0 or 180 degrees about an axis: w = sqrt(1 + trace) / 2, and with w = 0
\* the axis is the one whose diagonal element is 1
RotationAsQuaternion(m) ==
    LET trace == m[1][1] + m[2][2] + m[3][3]
    IN [x |-> IF trace # 3 /\ m[1][1] = 1 THEN 1 ELSE 0,
        y |-> IF trace # 3 /\ m[2][2] = 1 THEN 1 ELSE 0,
        z |-> IF trace # 3 /\ m[3][3] = 1 THEN 1 ELSE 0,
        w |-> IF trace = 3 THEN 1 ELSE 0]

\* MQuaternion.asMatrix()
QuaternionAsMatrix(q) ==
    <<<<1 - 2 * (q.y * q.y + q.z * q.z), 2 * (q.x * q.y + q.w * q.z),
        2 * (q.x * q.z - q.w * q.y)>>,
      <<2 * (q.x * q.y - q.w * q.z), 1 - 2 * (q.x * q.x + q.z * q.z),
        2 * (q.y * q.z + q.w * q.x)>>,
      <<2 * (q.x * q.z + q.w * q.y), 2 * (q.y * q.z - q.w * q.x),
        1 - 2 * (q.x * q.x + q.y * q.y)>>>>

\* MTransformationMatrix(m).rotation(asQuaternion=False) in degrees, rotation
\* order xyz, for a matrix whose elements are -1, 0 or 1
RotationAsEuler(m) ==
    LET atan2(y, x) == IF y = 1 THEN 90 ELSE IF y = -1 THEN -90
                       ELSE IF x = -1 THEN 180 ELSE 0
    IN IF m[1][1] = 0 /\ m[1][2] = 0
       THEN <<atan2(0 - m[3][2], m[2][2]), atan2(0 - m[1][3], 0), 0>>
       ELSE <<atan2(m[2][3], m[3][3]), 0, atan2(m[1][2], m[1][1])>>

\* the rotation conjugated by the target's parent matrix alone, without the
\* parent's inverse
MirroredRotation_NoInverse(rotate, source_parent_matrix, target_parent_matrix) ==
    LET driver_matrix == EulerAsMatrix(rotate)
        world_matrix == MatMul(driver_matrix, source_parent_matrix)
        rot_matrix == MatMul(Inverse(source_parent_matrix), world_matrix)
        rot == RotationAsQuaternion(rot_matrix)
        mirrored == [rot EXCEPT !.x = 0 - @, !.w = 0 - @]
    IN RotationAsEuler(MatMul(target_parent_matrix, QuaternionAsMatrix(mirrored)))

\* the rotation mirror_pose sets on the target of a driven transform
\* (api.py:938-967)
MirroredRotation(rotate, source_parent_matrix, target_parent_matrix) ==
    LET driver_matrix == EulerAsMatrix(rotate)
        world_matrix == MatMul(driver_matrix, source_parent_matrix)
        rot_matrix == MatMul(Inverse(source_parent_matrix), world_matrix)
        rot == RotationAsQuaternion(rot_matrix)
        mirrored == [rot EXCEPT !.x = 0 - @, !.w = 0 - @]
        final_rot_matrix == MatMul(MatMul(target_parent_matrix, QuaternionAsMatrix(mirrored)),
                                   Inverse(target_parent_matrix))
    IN RotationAsEuler(final_rot_matrix)

\* ----------------------------------------------------------------- UERBFAPI
\* Each operator returns the world the call leaves; the actions below add
\* what the call does to UERBFAPI._current_solver.

\* UERBFAPI.add_drivers
ApiAddDrivers(w, s, ts) ==
    IF DriverLimitExceeded(w, s) THEN Raise(w, "InvalidPoseIndex:too many poses")
    ELSE IF PosesErr(w, s) # "ok" THEN Raise(w, PosesErr(w, s))
    ELSE LET w1 == IF HasPose(w, s, "default") THEN DeletePose(w, s, "default") ELSE w
             w2 == IF Ok(w1) THEN AddDriver(w1, s, ts) ELSE w1
         IN IF Ok(w2) THEN AddPoseFromCurrent(w2, s, "default", FALSE) ELSE w2

\* UERBFAPI.create_rbf_solver up to the assignment of current_solver
CreateSolverWithDrivers(w, s, ts) ==
    IF ts = <<>> THEN Create(w, s) ELSE ApiAddDrivers(Create(w, s), s, ts)

\* UERBFAPI.create_rbf_solver
CreateRbfSolver(w, s, ts) ==
    LET w1 == CreateSolverWithDrivers(w, s, ts)
    IN IF Ok(w1) THEN EditSolver(w1, s, TRUE) ELSE w1

\* UERBFAPI.rename_pose
ApiRenamePose(w, s, name, newName) == RenamePose(w, s, PoseIndex(w, s, name), newName)

\* UERBFAPI.serialize(solvers): one document entry per solver
Serialize(w, ss) == [i \in 1..Len(ss) |-> Data(w, ss[i])]

\* the exception serialize raises, or "ok"
SerializeErr(w, ss) ==
    LET bad == {i \in 1..Len(ss) : PosesErr(w, ss[i]) # "ok"}
    IN IF bad = {} THEN "ok" ELSE PosesErr(w, ss[CHOOSE i \in bad : \A j \in bad : i <= j])

\* UERBFAPI.deserialize(data)
RECURSIVE Deserialize(_, _)
Deserialize(w, doc) ==
    IF doc = <<>> \/ ~Ok(w) THEN w
    ELSE Deserialize(CreateFromData(w, Head(doc)), Tail(doc))

\* a client's round trip: serialize one solver, delete it with
\* delete_rbf_solver, deserialize the document
RoundTrip(w, s) ==
    IF SerializeErr(w, <<s>>) # "ok" THEN Raise(w, SerializeErr(w, <<s>>))
    ELSE Deserialize(Delete(w, s), Serialize(w, <<s>>))

\* a client's reload: serialize one solver and deserialize the document while
\* the solver is still in the scene
Reload(w, s) ==
    IF SerializeErr(w, <<s>>) # "ok" THEN Raise(w, SerializeErr(w, <<s>>))
    ELSE Deserialize(w, Serialize(w, <<s>>))

\* ------------------------------------------------------------------ inputs
\* transform lists a caller passes: non-empty, without repetition
ListsOf(S) == {q \in SeqsUpTo(S, Cardinality(S)) :
                 q # <<>> /\ \A i, j \in 1..Len(q) : i # j => q[i] # q[j]}
DriverLists == ListsOf(DriverPool)
DrivenLists == {<<t>> : t \in DrivenPool}
\* driver-matrix lists: up to MaxMatrices copies of a matrix that is not the
\* identity (a transform at rest is captured by create_pose)
PosedMatrix == CHOOSE m \in Mats : m # DefaultMatrix
MatrixLists == {[i \in 1..k |-> PosedMatrix] : k \in 0..MaxMatrices}
\* controller-matrix lists: up to MaxControllerMatrices identity matrices
ControllerMatrixLists == {[i \in 1..k |-> DefaultMatrix] : k \in 0..MaxControllerMatrices}
\* driven_matrices dictionaries: empty, or a matrix for one transform
DrivenMatrixDicts ==
    UNION {[D -> Mats] : D \in {S \in SUBSET DrivenPool : Cardinality(S) <= 1}}

\* driver lists over every transform of the scene, up to MaxDrivers long
WideDriverLists == {q \in ListsOf(Transforms) : Len(q) <= MaxDrivers}

\* node names a client's solver can have: up to MaxNameTokens tokens
NameWords == {"arm", "l", "r", "UERBFSolver"}
NodeNames ==
    {q \in SeqsUpTo(NameWords \cup {"_"}, MaxNameTokens) :
        q # <<>> /\ \A i \in 1..(Len(q) - 1) : ~(IsWord(q[i]) /\ IsWord(q[i + 1]))}

\* parent matrices: the rotations by multiples of 90 degrees about the axes
\* and the same with axes mirrored (a parent scaled by -1)
ParentMatrices ==
    {[i \in 1..3 |-> [j \in 1..3 |-> IF p[i] = j THEN sg[i] ELSE 0]] :
        p \in {f \in [1..3 -> 1..3] : Range(f) = 1..3}, sg \in [1..3 -> {-1, 1}]}

\* --------------------------------------------------------------- the system
\* the scene an operation starts from
W == World(solver, blender, local)

\* the record of a call: operation, solver, outcome, and of its arguments the
\* pose name, the lengths of the driver- and controller-matrix lists, the
\* driven matrices given for transforms the solver binds, the mute flag, the
\* new pose name and the transform list
NoArgs == [name |-> "", nmat |-> 0, ncmat |-> 0, dmats |-> <<>>, mute |-> FALSE,
           newName |-> "", ts |-> <<>>]
\* no mirrored name derived yet
NoDerivation == [start |-> <<>>, name |-> <<>>, n |-> 0, err |-> "ok"]
\* no rotation mirrored yet
NoRotation == [rotate |-> <<0, 0, 0>>, source_parent_matrix |-> <<>>,
               target_parent_matrix |-> <<>>, m_rot |-> <<>>]
\* no name_unnamed_poses call made
NoNaming == [pc |-> "idle", s |-> NoSolver, todo |-> <<>>, pose_index |-> -1,
             pose_name |-> "", err |-> "ok"]
PoseArg(name) == [NoArgs EXCEPT !.name = name]
MatrixArgs(name, matrices, cmats) ==
    [NoArgs EXCEPT !.name = name, !.nmat = Len(matrices), !.ncmat = Len(cmats)]
ForBindings(s, dmats) == [t \in (DOMAIN dmats) \cap BindingsOf(W, s) |-> dmats[t]]

Init ==
    /\ solver = [s \in Solvers |-> NoSolverNode]
    /\ blender = [t \in Transforms |-> NoBlenderNode]
    /\ local = [t \in Transforms |-> DefaultMatrix]
    /\ current = NoSolver
    /\ last = [op |-> "init", s |-> NoSolver, err |-> "ok", args |-> NoArgs]
    /\ calls = 0
    /\ scene = Transforms
    /\ mapping = "left"
    /\ context = NoSolver
    /\ derived = NoDerivation
    /\ rotation = NoRotation
    /\ naming = NoNaming


\* a client script makes up to MaxCalls calls and stops at the first call that
\* raises: the exception is not caught
Ready == calls < MaxCalls /\ last.err = "ok"

\* the scene an operation leaves and the record of the call
Leave(w, op, s, args) ==
    /\ solver' = w.sv
    /\ blender' = w.bl
    /\ local' = w.loc
    /\ last' = [op |-> op, s |-> s, err |-> w.err, args |-> args]
    /\ calls' = calls + 1
    /\ UNCHANGED <<scene, derived, rotation, naming>>

\* a call on an existing solver ...
Callable(s) == Ready /\ solver[s].exists

\* ... that assigns `cur` to current_solver as its last statement: the setter
\* stores it and delivers on_context_changed to every loaded extension
Done(w, op, s, args, cur) ==
    /\ Leave(w, op, s, args)
    /\ current' = IF Ok(w) THEN cur ELSE current
    /\ context' = IF Ok(w) THEN cur ELSE context
    /\ UNCHANGED mapping

\* ... that does not touch current_solver (a method of RBFNode, go_to_pose)
Quiet(w, op, s, args) ==
    /\ Leave(w, op, s, args)
    /\ UNCHANGED <<current, context, mapping>>

\* ... that stores `cur` in _current_solver directly, without the setter
DoneDirect(w, op, s, args, cur) ==
    /\ Leave(w, op, s, args)
    /\ current' = IF Ok(w) THEN cur ELSE current
    /\ UNCHANGED <<context, mapping>>

\* UERBFAPI.create_rbf_solver(solver_name, drivers): current_solver is set
\* before edit_solver is called
create_rbf_solver(s, ts) ==
    /\ Ready
    /\ ~solver[s].exists
    /\ Leave(CreateRbfSolver(W, s, ts), "create_rbf_solver", s, NoArgs)
    /\ current' = IF Ok(CreateSolverWithDrivers(W, s, ts)) THEN s ELSE current
    /\ context' = IF Ok(CreateSolverWithDrivers(W, s, ts)) THEN s ELSE context
    /\ UNCHANGED mapping

\* UERBFAPI.delete_rbf_solver(solver)
delete_rbf_solver(s) ==
    /\ Callable(s)
    /\ DoneDirect(Delete(W, s), "delete_rbf_solver", s, NoArgs,
                  IF current = s THEN NoSolver ELSE current)

\* `api.current_solver = v` (the property setter): v is an RBFNode the caller
\* holds - the wrapper of a solver in the scene, or the one it has just passed
\* to delete_rbf_solver - or a value that is not an RBFNode (None, the name of
\* a transform)
set_current_solver(v) ==
    /\ Ready
    /\ v \in Solvers =>
          \/ solver[v].exists
          \/ last.op = "delete_rbf_solver" /\ last.s = v
    /\ IF v \in Solvers
       THEN Done(W, "set_current_solver", v, NoArgs, v)
       ELSE Done(Raise(W, "InvalidSolverError"), "set_current_solver", NoSolver,
                 [NoArgs EXCEPT !.name = v], current)

\* UERBFAPI.edit_solver(edit, solver)
edit_solver(s, edit) ==
    /\ Callable(s)
    /\ Done(EditSolver(W, s, edit), "edit_solver", s, NoArgs, s)

\* RBFNode.add_driver(transform_nodes)
add_driver(s, ts) ==
    /\ Callable(s)
    /\ Quiet(AddDriver(W, s, ts), "add_driver", s, NoArgs)

\* UERBFAPI.add_drivers(drivers, solver)
add_drivers(s, ts) ==
    /\ Callable(s)
    /\ Done(ApiAddDrivers(W, s, ts), "add_drivers", s, NoArgs, s)

\* UERBFAPI.remove_drivers(drivers, solver)
remove_drivers(s, ts) ==
    /\ Callable(s)
    /\ Done(RemoveDrivers(W, s, ts), "remove_drivers", s, [NoArgs EXCEPT !.ts = ts], s)

\* UERBFAPI.add_driven_transforms(driven_nodes, solver, edit)
add_driven_transforms(s, ts, edit) ==
    /\ Callable(s)
    /\ Done(AddDrivenTransforms(W, s, ts, edit), "add_driven_transforms", s,
            [NoArgs EXCEPT !.ts = ts], s)

\* RBFNode.add_pose(pose_name, matrices, controller_matrices, driven_matrices)
add_pose(s, name, matrices, cmats, dmats) ==
    /\ Callable(s)
    /\ Quiet(AddPose(W, s, name, matrices, cmats, dmats, TRUE), "add_pose", s,
             [MatrixArgs(name, matrices, cmats) EXCEPT !.dmats = ForBindings(s, dmats)])

\* UERBFAPI.create_pose(pose_name, solver)
create_pose(s, name) ==
    /\ Callable(s)
    /\ Done(AddPoseFromCurrent(W, s, name, FALSE), "create_pose", s, PoseArg(name), s)

\* RBFNode.update_pose(pose_name, matrices, controller_matrices)
update_pose(s, name, matrices, cmats) ==
    /\ Callable(s)
    /\ Quiet(UpdatePose(W, s, name, matrices, cmats), "update_pose", s,
             MatrixArgs(name, matrices, cmats))

\* UERBFAPI.update_pose(pose_name, solver)
api_update_pose(s, name) ==
    /\ Callable(s)
    /\ Done(AddPoseFromCurrent(W, s, name, TRUE), "api_update_pose", s, PoseArg(name), s)

\* UERBFAPI.delete_pose(pose_name, solver)
delete_pose(s, name) ==
    /\ Callable(s)
    /\ Done(DeletePose(W, s, name), "delete_pose", s, PoseArg(name), s)

\* UERBFAPI.rename_pose(pose_name, new_pose_name, solver)
rename_pose(s, name, newName) ==
    /\ Callable(s)
    /\ Done(ApiRenamePose(W, s, name, newName), "rename_pose", s,
            [PoseArg(name) EXCEPT !.newName = newName], s)

\* UERBFAPI.go_to_pose(pose_name, solver)
go_to_pose(s, name) ==
    /\ Callable(s)
    /\ Quiet(GoToPose(W, s, name), "go_to_pose", s, PoseArg(name))

\* serialize(solver); delete_rbf_solver(solver); deserialize(document)
round_trip(s) ==
    /\ Callable(s)
    /\ DoneDirect(RoundTrip(W, s), "round_trip", s, NoArgs,
                  IF current = s THEN NoSolver ELSE current)

\* UERBFAPI.mute_pose(pose_name, mute, solver)
mute_pose(s, name, mute) ==
    /\ Callable(s)
    /\ Done(MutePose(W, s, name, mute), "mute_pose", s,
            [PoseArg(name) EXCEPT !.mute = mute], s)

\* deserialize(serialize(solver)) with the solver in the scene; deserialize
\* ends with load(), which leaves current_solver alone
reload(s) ==
    /\ Callable(s)
    /\ Quiet(Reload(W, s), "reload", s, NoArgs)

\* UERBFAPI.mirror_rbf_solver(solver): the name derivation, the first thing
\* mirror does, may swap the sides of the API's mirror mapping
mirror_rbf_solver(s) ==
    /\ Callable(s)
    /\ \E w \in {Mirror(W, s, scene, TRUE)} :
          /\ Leave(w, "mirror_rbf_solver", s, NoArgs)
          /\ current' = IF Ok(w) THEN MirroredNode(s) ELSE current
          /\ context' = IF Ok(w) THEN MirroredNode(s) ELSE context
    /\ mapping' = MirroredSolverName(NameTokens[s], mapping).side

\* RBFNode.mirror(api.mirror_mapping, mirror_poses=False)
mirror(s) ==
    /\ Callable(s)
    /\ \E w \in {Mirror(W, s, scene, FALSE)} : Leave(w, "mirror", s, NoArgs)
    /\ mapping' = MirroredSolverName(NameTokens[s], mapping).side
    /\ UNCHANGED <<current, context>>

\* UERBFAPI.mirror_pose(pose_name, solver)
mirror_pose(s, name) ==
    /\ Callable(s)
    /\ \E w \in {MirrorPose(W, s, name, scene)} :
          /\ Leave(w, "mirror_pose", s, PoseArg(name))
          /\ current' = IF Ok(w) THEN s ELSE current
          /\ context' = IF Ok(w) THEN s ELSE context
    /\ mapping' = MirroredSolverName(NameTokens[s], mapping).side

\* UEPoseBlenderNode(t).set_pose(matrix=m), index left at its default -1
blender_set_pose(t, m) ==
    /\ Ready
    /\ blender[t].exists /\ blender[t].rbfSolver # NoSolver
    /\ Quiet(BlenderSetPose(W, t, NextAvailableIndex(blender[t].poses), m),
             "blender_set_pose", blender[t].rbfSolver, [NoArgs EXCEPT !.ts = <<t>>])

\* UEPoseBlenderNode(t).add_pose_from_current(pose_name), index left at its
\* default -1
blender_add_pose_from_current(t) ==
    /\ Ready
    /\ blender[t].exists /\ blender[t].rbfSolver # NoSolver
    /\ Quiet(BlenderAddPoseFromCurrent(W, t, NextAvailableIndex(blender[t].poses)),
             "blender_add_pose_from_current", blender[t].rbfSolver,
             [NoArgs EXCEPT !.ts = <<t>>])

\* UEPoseBlenderNode(t).set_weight(in_float_attr=solver.outputs[out]), index
\* left at its default -1
blender_set_weight(t, out) ==
    /\ Ready
    /\ blender[t].exists /\ blender[t].rbfSolver # NoSolver
    /\ out \in solver[blender[t].rbfSolver].outputs
    /\ Quiet(BlenderSetWeight(W, blender[t].rbfSolver, t,
                              NextAvailableIndex(blender[t].weights), out),
             "blender_set_weight", blender[t].rbfSolver, [NoArgs EXCEPT !.ts = <<t>>])

\* the user sets targets[i].targetScaleFactor of a pose in the attribute
\* editor
set_pose_properties(s, name, scale_factor) ==
    /\ Callable(s)
    /\ PoseIndex(W, s, name) # -1
    /\ solver[s].targets[PoseIndex(W, s, name) + 1].properties.scale_factor # scale_factor
    /\ Quiet([W EXCEPT !.sv[s].targets[PoseIndex(W, s, name) + 1].properties.scale_factor
                          = scale_factor],
             "set_pose_properties", s, PoseArg(name))

\* the user deletes a transform that no solver drives or is driven by
delete_transform(t) ==
    /\ Ready
    /\ t \in scene
    /\ ~blender[t].exists
    /\ \A s \in Solvers : ~HasDriver(W, s, t) /\ ~HasController(W, s, t)
    /\ scene' = scene \ {t}
    /\ last' = [op |-> "delete_transform", s |-> NoSolver, err |-> "ok", args |-> NoArgs]
    /\ calls' = calls + 1
    /\ UNCHANGED <<solver, blender, local, current, mapping, context, derived, rotation,
                   naming>>

\* the user (or an animation) moves a transform
xform(t, m) ==
    /\ Ready
    /\ local[t] # m
    /\ solver' = solver /\ blender' = blender /\ current' = current
    /\ UNCHANGED <<scene, mapping, context, derived, rotation, naming>>
    /\ local' = [local EXCEPT ![t] = m]
    /\ last' = [op |-> "xform", s |-> NoSolver, err |-> "ok", args |-> NoArgs]
    /\ calls' = calls + 1

\* One rig: the calls a client makes on the first solver of the scene, with
\* add_driven_transforms' default edit = False.
Rig == {SolverOrder[1]}

Next ==
    \/ \E s \in Rig, ts \in DriverLists \cup {<<>>} : create_rbf_solver(s, ts)
    \/ \E s \in Rig : delete_rbf_solver(s)
    \/ \E s \in Rig, ts \in DriverLists : add_driver(s, ts)
    \/ \E s \in Rig, ts \in DriverLists : add_drivers(s, ts)
    \/ \E s \in Rig, ts \in DriverLists : remove_drivers(s, ts)
    \/ \E s \in Rig, ts \in DrivenLists : add_driven_transforms(s, ts, FALSE)
    \/ \E s \in Rig, name \in PoseNames, matrices \in MatrixLists,
          cmats \in ControllerMatrixLists, dmats \in DrivenMatrixDicts :
          add_pose(s, name, matrices, cmats, dmats)
    \/ \E s \in Rig, name \in PoseNames : create_pose(s, name)
    \/ \E s \in Rig, name \in PoseNames, matrices \in MatrixLists,
          cmats \in ControllerMatrixLists : update_pose(s, name, matrices, cmats)
    \/ \E s \in Rig, name \in PoseNames : api_update_pose(s, name)
    \/ \E s \in Rig, name \in PoseNames : delete_pose(s, name)
    \/ \E s \in Rig, name, newName \in PoseNames : rename_pose(s, name, newName)
    \/ \E s \in Rig, name \in PoseNames : go_to_pose(s, name)
    \/ \E s \in Rig : round_trip(s)
    \/ \E t \in Transforms, m \in Mats : xform(t, m)

Spec == Init /\ [][Next]_vars

\* Several solvers in one scene: the calls that create solvers, bind driven
\* transforms and switch edit mode.
NextEdit ==
    \/ \E s \in Solvers, ts \in DriverLists \cup {<<>>} : create_rbf_solver(s, ts)
    \/ \E s \in Solvers, ts \in DrivenLists, edit \in BOOLEAN :
          add_driven_transforms(s, ts, edit)
    \/ \E s \in Solvers, edit \in BOOLEAN : edit_solver(s, edit)

SpecEdit == Init /\ [][NextEdit]_vars

\* One rig that is built and posed, whose poses are muted and unmuted, and
\* that is reloaded from its own document.
NextLoad ==
    \/ \E s \in Rig, ts \in DriverLists \cup {<<>>} : create_rbf_solver(s, ts)
    \/ \E s \in Rig, ts \in DrivenLists : add_driven_transforms(s, ts, FALSE)
    \/ \E s \in Rig, name \in PoseNames : create_pose(s, name)
    \/ \E s \in Rig, name \in PoseNames : delete_pose(s, name)
    \/ \E s \in Rig, name \in PoseNames, mute \in BOOLEAN : mute_pose(s, name, mute)
    \/ \E s \in Rig, name \in PoseNames : set_pose_properties(s, name, 2)
    \/ \E s \in Rig : reload(s)
    \/ \E t \in Transforms, m \in Mats : xform(t, m)

SpecLoad == Init /\ [][NextLoad]_vars

\* Mirrored names: a solver of any name, a mapping on either side, and the
\* mirrored name derived from the result of the previous derivation.
InitName ==
    /\ solver = [s \in Solvers |-> NoSolverNode]
    /\ blender = [t \in Transforms |-> NoBlenderNode]
    /\ local = [t \in Transforms |-> DefaultMatrix]
    /\ current = NoSolver
    /\ last = [op |-> "init", s |-> NoSolver, err |-> "ok", args |-> NoArgs]
    /\ calls = 0
    /\ scene = Transforms
    /\ mapping \in {"left", "right"}
    /\ context = NoSolver
    /\ \E name \in NodeNames : derived = [NoDerivation EXCEPT !.start = name, !.name = name]
    /\ rotation = NoRotation
    /\ naming = NoNaming

\* RBFNode(name)._get_mirrored_solver_name(mirror_mapping)
derive_name ==
    /\ derived.n < MaxDerivations
    /\ derived.err = "ok"
    /\ LET r == MirroredSolverName(derived.name, mapping)
       IN /\ derived' = [derived EXCEPT !.name = r.name, !.n = @ + 1, !.err = r.err]
          /\ mapping' = r.side
    /\ UNCHANGED <<solver, blender, local, current, last, calls, scene, context, rotation,
                   naming>>

NextName == derive_name

SpecName == InitName /\ [][NextName]_vars

\* Mirrored rotations: a driven transform at a rotation by multiples of 180
\* degrees, under any parent matrix, mirrored to a target under any parent
\* matrix.
InitRotation ==
    /\ solver = [s \in Solvers |-> NoSolverNode]
    /\ blender = [t \in Transforms |-> NoBlenderNode]
    /\ local = [t \in Transforms |-> DefaultMatrix]
    /\ current = NoSolver
    /\ last = [op |-> "init", s |-> NoSolver, err |-> "ok", args |-> NoArgs]
    /\ calls = 0
    /\ scene = Transforms
    /\ mapping = "left"
    /\ context = NoSolver
    /\ derived = NoDerivation
    /\ \E r \in [1..3 -> {0, 180}], sp \in ParentMatrices, tp \in ParentMatrices :
          rotation = [NoRotation EXCEPT !.rotate = r, !.source_parent_matrix = sp,
                                        !.target_parent_matrix = tp]
    /\ naming = NoNaming

\* the rotation block of the driven-transform loop of mirror_pose
mirror_rotation ==
    /\ rotation.m_rot = <<>>
    /\ rotation' = [rotation EXCEPT !.m_rot = MirroredRotation(rotation.rotate,
                         rotation.source_parent_matrix, rotation.target_parent_matrix)]
    /\ UNCHANGED <<solver, blender, local, current, last, calls, scene, mapping,
                   context, derived, naming>>

SpecRotation == InitRotation /\ [][mirror_rotation]_vars

\* Pose blenders written to directly: a rig is built and posed, and a client
\* appends poses and weights to its pose blenders without naming an index.
NextBlender ==
    \/ \E s \in Rig, ts \in DriverLists : create_rbf_solver(s, ts)
    \/ \E s \in Rig, ts \in DrivenLists : add_driven_transforms(s, ts, FALSE)
    \/ \E s \in Rig, name \in PoseNames : create_pose(s, name)
    \/ \E t \in DrivenPool, m \in Mats : blender_set_pose(t, m)
    \/ \E t \in DrivenPool : blender_add_pose_from_current(t)
    \/ \E t \in DrivenPool, out \in 0..MaxCalls : blender_set_weight(t, out)
    \/ \E t \in Transforms, m \in Mats : xform(t, m)

SpecBlender == Init /\ [][NextBlender]_vars

\* Naming poses: a solver loaded from a scene that stores pose names
\* elsewhere, with any mix of unnamed targets and targets named pose_<i>
\* (named targets pairwise distinct), on which name_unnamed_poses is called.
InitNaming ==
    /\ \E tg \in SeqsUpTo({""} \cup {FormatPoseName("pose", i) : i \in 0..MaxTargets},
                          MaxTargets) :
          /\ \A i, j \in 1..Len(tg) : (i # j /\ tg[i] # "") => tg[i] # tg[j]
          /\ solver = [s \in Solvers |->
                IF s \notin Rig THEN NoSolverNode
                ELSE [NoSolverNode EXCEPT
                        !.exists = TRUE,
                        !.cfg = SetDefaults(@),
                        !.drivers = <<"J_l_shoulder">>,
                        !.targets = [i \in 1..Len(tg) |->
                                       [name |-> tg[i], values |-> <<DefaultMatrix>>,
                                        controllers |-> <<>>, enable |-> TRUE,
                                        properties |-> DefaultProperties]],
                        !.outputs = 0..(Len(tg) - 1)]]
    /\ blender = [t \in Transforms |-> NoBlenderNode]
    /\ local = [t \in Transforms |-> DefaultMatrix]
    /\ current = NoSolver
    /\ last = [op |-> "init", s |-> NoSolver, err |-> "ok", args |-> NoArgs]
    /\ calls = 0
    /\ scene = Transforms
    /\ mapping = "left"
    /\ context = NoSolver
    /\ derived = NoDerivation
    /\ rotation = NoRotation
    /\ naming = NoNaming

\* RBFNode.name_unnamed_poses(basename='pose') up to its loop:
\* unnamed_poses_indices() iterates getAttr(targets, multiIndices=True),
\* which is None for a solver without targets
name_unnamed_poses(s) ==
    /\ naming.pc = "idle"
    /\ solver[s].exists
    /\ naming' =
          IF solver[s].targets = <<>>
          THEN [naming EXCEPT !.pc = "done", !.s = s, !.err = "TypeError"]
          ELSE [naming EXCEPT !.pc = "for", !.s = s,
                  !.todo = SelectSeq([i \in 1..NumPoses(W, s) |-> i - 1],
                                     LAMBDA i : solver[s].targets[i + 1].name = "")]
    /\ UNCHANGED <<solver, blender, local, current, last, calls, scene, mapping,
                   context, derived, rotation>>

\* `for pose_index in ...: pose_name = '{}_{}'.format(basename, pose_index)`
for_pose_index ==
    /\ naming.pc = "for"
    /\ naming' =
          IF naming.todo = <<>> THEN [naming EXCEPT !.pc = "done"]
          ELSE [naming EXCEPT !.pc = "while", !.todo = Tail(@),
                              !.pose_index = Head(naming.todo),
                              !.pose_name = FormatPoseName("pose", Head(naming.todo))]
    /\ UNCHANGED <<solver, blender, local, current, last, calls, scene, mapping,
                   context, derived, rotation>>

\* one test of `while self.has_pose(pose_name)`: its body, or past the loop
\* rename_pose(pose_index, pose_name)
while_has_pose ==
    /\ naming.pc = "while"
    /\ IF PosesErr(W, naming.s) # "ok"
       THEN /\ naming' = [naming EXCEPT !.pc = "done", !.err = PosesErr(W, naming.s)]
            /\ UNCHANGED solver
       ELSE IF HasPose(W, naming.s, naming.pose_name)
       THEN /\ naming' = [naming EXCEPT
                            !.pose_name = FormatPoseName("pose", naming.pose_index + 1)]
            /\ UNCHANGED solver
       ELSE \E w \in {RenamePose(W, naming.s, naming.pose_index, naming.pose_name)} :
               /\ solver' = w.sv
               /\ naming' = IF Ok(w) THEN [naming EXCEPT !.pc = "for"]
                            ELSE [naming EXCEPT !.pc = "done", !.err = w.err]
    /\ UNCHANGED <<blender, local, current, last, calls, scene, mapping, context, derived,
                   rotation>>

NextNaming ==
    \/ \E s \in Rig : name_unnamed_poses(s)
    \/ for_pose_index
    \/ while_has_pose

\* a call that has started keeps running
SpecNaming == InitNaming /\ [][NextNaming]_vars /\ WF_vars(NextNaming)

\* Two sides of a rig: solvers are built on transforms of the scene, posed
\* and mirrored.
NextMirror ==
    \/ \E s \in Solvers, ts \in DriverLists :
          Range(ts) \subseteq scene /\ create_rbf_solver(s, ts)
    \/ \E s \in Solvers, ts \in DrivenLists :
          Range(ts) \subseteq scene /\ add_driven_transforms(s, ts, FALSE)
    \/ \E s \in Solvers, name \in PoseNames : create_pose(s, name)
    \/ \E s \in Solvers : mirror_rbf_solver(s)
    \/ \E s \in Solvers : mirror(s)
    \/ \E s \in Solvers, name \in PoseNames : mirror_pose(s, name)
    \/ \E t \in Transforms : delete_transform(t)
    \/ \E t \in Transforms, m \in Mats : t \in scene /\ xform(t, m)

SpecMirror == Init /\ [][NextMirror]_vars

\* Two solvers created, edited, mirrored and deleted through the API, and the
\* current solver assigned.
NextCurrent ==
    \/ \E s \in Solvers, ts \in DriverLists : create_rbf_solver(s, ts)
    \/ \E s \in Solvers : delete_rbf_solver(s)
    \/ \E s \in Solvers, edit \in BOOLEAN : edit_solver(s, edit)
    \/ \E s \in Solvers : mirror_rbf_solver(s)
    \/ \E v \in Solvers \cup {NoSolver} \cup DriverPool : set_current_solver(v)

SpecCurrent == Init /\ [][NextCurrent]_vars

\* One rig with up to MaxDrivers drivers, posed, from which drivers are removed.
NextDrivers ==
    \/ \E s \in Rig, ts \in WideDriverLists : create_rbf_solver(s, ts)
    \/ \E s \in Rig, name \in PoseNames : create_pose(s, name)
    \/ \E s \in Rig, ts \in WideDriverLists : remove_drivers(s, ts)
    \/ \E t \in Transforms, m \in Mats : xform(t, m)

SpecDrivers == Init /\ [][NextDrivers]_vars

\* ------------------------------------------------------------- properties
\* the scene after the step
WNext == World(solver', blender', local')

\* what the properties read of a solver's poses and bindings
PoseNamesOf(w, s) == [i \in 1..NumPoses(w, s) |-> w.sv[s].targets[i].name]
PoseMatricesOf(w, s) ==
    [i \in 1..NumPoses(w, s) |->
        [name |-> w.sv[s].targets[i].name,
         drivers |-> w.sv[s].targets[i].values,
         controllers |-> w.sv[s].targets[i].controllers]]
RecordedOf(w, s) == [t \in BindingsOf(w, s) |-> w.bl[t].poses]

\* the pose count, the pose names and every driven binding's recorded
\* matrices of the called solver are what they were before the call
CallChangedNothing ==
    /\ NumPoses(WNext, last'.s) = NumPoses(W, last'.s)
    /\ PoseNamesOf(WNext, last'.s) = PoseNamesOf(W, last'.s)
    /\ RecordedOf(WNext, last'.s) = RecordedOf(W, last'.s)

\* an add_pose call on a solver with D >= 1 drivers, given a driver-matrix
\* list whose length is not D
WrongArityAddPose ==
    /\ last'.op = "add_pose"
    /\ NumDrivers(W, last'.s) >= 1
    /\ last'.args.nmat # NumDrivers(W, last'.s)

\* C1 as stated: on a solver with D >= 1 drivers, add_pose with a
\* driver-matrix list whose length is not D fails with the arity error, and
\* the pose count, the pose names and every driven binding's recorded matrices
\* are what they were before the call.
C1_AlwaysArityError ==
    [][WrongArityAddPose =>
         /\ last'.err = "InvalidPose:number of matrices"
         /\ CallChangedNothing]_vars

\* C1: on a solver with D >= 1 drivers, add_pose with a driver-matrix list
\* whose length is not D fails and the pose count, the pose names and every
\* driven binding's recorded matrices are what they were before the call; the
\* error is that of the first check to fire: reading the stored poses, then
\* the name being taken, then the length of the list.
C1_AddPoseWrongArityFails ==
    [][WrongArityAddPose =>
         /\ last'.err = IF PosesErr(W, last'.s) # "ok" THEN PosesErr(W, last'.s)
                        ELSE IF HasPose(W, last'.s, last'.args.name)
                             THEN "InvalidPose:already a pose"
                             ELSE "InvalidPose:number of matrices"
         /\ CallChangedNothing]_vars

\* an add_pose call has just failed with the arity error on a solver that has
\* a driver, a pose and a driven binding
C1_Witness ==
    /\ last.op = "add_pose"
    /\ last.err = "InvalidPose:number of matrices"
    /\ NumDrivers(W, last.s) >= 1
    /\ NumPoses(W, last.s) >= 1
    /\ BindingsOf(W, last.s) # {}

\* C2: on a solver with more than one pose, RBFNode.add_driver and
\* UERBFAPI.add_drivers fail for every list of transforms, and the driver list
\* and the poses are what they were before the call.
C2_DriverLock ==
    \A s \in Solvers, ts \in DriverLists :
       (solver[s].exists /\ NumPoses(W, s) > 1) =>
         /\ ~Ok(AddDriver(W, s, ts))
         /\ AddDriver(W, s, ts).sv[s].drivers = solver[s].drivers
         /\ AddDriver(W, s, ts).sv[s].targets = solver[s].targets
         /\ ~Ok(ApiAddDrivers(W, s, ts))
         /\ ApiAddDrivers(W, s, ts).sv[s].drivers = solver[s].drivers
         /\ ApiAddDrivers(W, s, ts).sv[s].targets = solver[s].targets

\* add_driver has just been refused on a solver with two poses or more
C2_Witness ==
    /\ last.op \in {"add_driver", "add_drivers"}
    /\ last.err \in {"RuntimeError:driver limit", "InvalidPoseIndex:too many poses"}
    /\ NumPoses(W, last.s) > 1

\* C3: every driven binding of a solver stores exactly as many recorded
\* matrices as the solver has poses.
C3_BindingsInLockstep ==
    \A s \in Solvers : \A t \in BindingsOf(W, s) :
       Cardinality(DOMAIN blender[t].poses) = NumPoses(W, s)

\* C4: every stored pose holds exactly one driver matrix per driver.
C4_OneMatrixPerDriver ==
    \A s \in Solvers : \A i \in 1..NumPoses(W, s) :
       Len(solver[s].targets[i].values) = NumDrivers(W, s)

\* C5: the pose names of a solver are pairwise distinct.
C5_PoseNamesDistinct ==
    \A s \in Solvers : \A i, j \in 1..NumPoses(W, s) :
       (i # j /\ solver[s].targets[i].name # "")
          => solver[s].targets[i].name # solver[s].targets[j].name

\* rename_pose has just renamed a pose of a solver that has several
C5_Witness ==
    /\ last.op = "rename_pose"
    /\ last.err = "ok"
    /\ NumPoses(W, last.s) >= 2

\* C6: at most one solver of the scene is in edit mode.
C6_AtMostOneInEdit ==
    Cardinality({s \in Solvers :
                   solver[s].exists /\ GetSolverEditStatus(solver, blender, s)}) <= 1

\* a recorded-matrix array with the element at idx dropped and the later
\* elements moved down by one
Dropped(f, idx) ==
    [j \in {i \in DOMAIN f : i < idx} \cup {i - 1 : i \in {k \in DOMAIN f : k > idx}} |->
        IF j < idx THEN f[j] ELSE f[j + 1]]

\* C7: a delete_pose(name) that succeeds on a solver with N poses leaves N-1
\* poses, none of them called name; the remaining poses are at 0..N-2 in their
\* previous order with their driver and controller matrices; every driven
\* binding has dropped the recorded matrix at the deleted index and kept the
\* others in order.
C7_DeletePoseCompacts ==
    [][(last'.op = "delete_pose" /\ last'.err = "ok") =>
         LET s == last'.s
             idx == PoseIndex(W, s, last'.args.name)
         IN /\ NumPoses(WNext, s) = NumPoses(W, s) - 1
            /\ ~HasPose(WNext, s, last'.args.name)
            /\ PoseMatricesOf(WNext, s) = RemoveAt(PoseMatricesOf(W, s), idx + 1)
            /\ \A t \in BindingsOf(W, s) :
                  blender'[t].poses = Dropped(blender[t].poses, idx)]_vars

\* C8: update_pose with a driver-matrix list whose length is not the number
\* of drivers, or a controller-matrix list whose length is not the number of
\* controllers, fails and leaves the stored poses as they were; an update_pose
\* that succeeds leaves the pose count and the index of every pose unchanged.
C8_UpdatePoseChecksArity ==
    [][(last'.op = "update_pose" /\ PosesErr(W, last'.s) = "ok"
          /\ HasPose(W, last'.s, last'.args.name)) =>
         /\ (last'.args.nmat # NumDrivers(W, last'.s)
               \/ last'.args.ncmat # NumControllers(W, last'.s))
              => /\ last'.err # "ok"
                 /\ solver'[last'.s].targets = solver[last'.s].targets
         /\ last'.err = "ok" => PoseNamesOf(WNext, last'.s) = PoseNamesOf(W, last'.s)]_vars

\* C9: an add_pose that succeeds on a solver with N poses puts the new pose at
\* index N and leaves the N existing poses with their index, name and
\* matrices; every driven binding records at index N the driven matrix the
\* caller supplied for its transform, or the transform's current local matrix
\* when none was supplied, and its weight N is bound to the solver's output N.
C9_AddPoseRecordsDriven ==
    [][(last'.op \in {"add_pose", "create_pose"} /\ last'.err = "ok") =>
         LET s == last'.s
             N == NumPoses(W, s)
         IN /\ NumPoses(WNext, s) = N + 1
            /\ PoseIndex(WNext, s, last'.args.name) = N
            /\ SubSeq(solver'[s].targets, 1, N) = solver[s].targets
            /\ BindingsOf(WNext, s) = BindingsOf(W, s)
            /\ \A t \in BindingsOf(W, s) :
                  /\ N \in DOMAIN blender'[t].poses
                  /\ blender'[t].poses[N] = IF t \in DOMAIN last'.args.dmats
                                            THEN last'.args.dmats[t] ELSE local[t]
                  /\ \A j \in DOMAIN blender[t].poses \ {N} :
                        j \in DOMAIN blender'[t].poses
                           /\ blender'[t].poses[j] = blender[t].poses[j]
                  /\ N \in DOMAIN blender'[t].weights
                  /\ blender'[t].weights[N] = N
                  /\ N \in solver'[s].outputs]_vars

\* add_pose has just recorded, for a driven binding, a supplied matrix that is
\* not the transform's current local matrix
C9_Witness ==
    /\ last.op = "add_pose"
    /\ last.err = "ok"
    /\ \E t \in BindingsOf(W, last.s) :
          /\ t \in DOMAIN last.args.dmats
          /\ last.args.dmats[t] # local[t]
          /\ blender[t].poses[NumPoses(W, last.s) - 1] = last.args.dmats[t]

\* C10: serializing a solver that has a driver and a pose, deleting it and
\* deserializing the document gives a solver of the same name with the same
\* ordered drivers, the same pose names, for every pose the same driver
\* matrices and the same recorded driven matrix per driven transform, and the
\* same scalar configuration.
C10_RoundTrip ==
    [][(last'.op = "round_trip" /\ last'.err = "ok"
          /\ NumDrivers(W, last'.s) >= 1 /\ NumPoses(W, last'.s) >= 1) =>
         LET s == last'.s
         IN /\ solver'[s].exists
            /\ solver'[s].drivers = solver[s].drivers
            /\ PoseNamesOf(WNext, s) = PoseNamesOf(W, s)
            /\ \A i \in 1..NumPoses(W, s) :
                  /\ solver'[s].targets[i].values = solver[s].targets[i].values
                  /\ DrivenOfPose(WNext, s, i - 1) = DrivenOfPose(W, s, i - 1)
            /\ solver'[s].cfg = solver[s].cfg]_vars

\* C11: deserializing the document of a solver that is still in the scene
\* succeeds, reuses the solver and leaves its pose names (hence its pose
\* count) as they were: poses whose names exist are updated in place.
C11_DeserializeUpdatesInPlace ==
    [][\A s \in Solvers :
          (last'.op = "reload" /\ last'.s = s /\ SerializeErr(W, <<s>>) = "ok")
          => /\ last'.err = "ok"
             /\ PoseNamesOf(WNext, s) = PoseNamesOf(W, s)]_vars

\* C12: for every solver name that matches the solver expression, deriving
\* the mirrored name and then the mirrored name of the result, with the same
\* mapping and whatever its source side was at the start, raises nothing and
\* returns the original name.
C12_MirroredNameInvolution ==
    MatchGroups(derived.start) # <<>>
    => /\ derived.err = "ok"
       /\ derived.n = 2 => derived.name = derived.start

\* C13: after a mirror that succeeds, the solver with the derived target name
\* exists, its drivers are the mirrored names of the source's drivers in the
\* same order, and its driven transforms are the mirrored names of the
\* source's driven transforms, whether or not a solver of that name existed
\* before the call.
C13_MirrorBuildsTarget ==
    [][\A s \in Solvers :
          (last'.op \in {"mirror_rbf_solver", "mirror"} /\ last'.s = s /\ last'.err = "ok")
          => /\ solver'[MirroredNode(s)].exists
             /\ solver'[MirroredNode(s)].drivers =
                  [i \in 1..NumDrivers(W, s) |-> MirroredNode(solver[s].drivers[i])]
             /\ BindingsOf(WNext, MirroredNode(s)) =
                  {MirroredNode(t) : t \in BindingsOf(W, s)}]_vars

\* C14: a mirror or mirror_pose that fails with InvalidMirrorMapping has
\* changed nothing: the solvers, their poses and bindings, the transforms'
\* live matrices and the mapping's source side are as before the call.
C14_FailedMirrorChangesNothing ==
    [][(last'.op \in {"mirror_rbf_solver", "mirror", "mirror_pose"}
        /\ last'.err = "InvalidMirrorMapping")
       => /\ solver' = solver
          /\ blender' = blender
          /\ local' = local
          /\ mapping' = mapping]_vars

\* C15: after mirror with mirror_poses=True (mirror_rbf_solver) the target
\* solver's set of pose names is the source's set of pose names; after mirror
\* with mirror_poses=False the target has exactly one pose, named "default".
C15_MirrorPoses ==
    [][\A s \in Solvers :
          /\ (last'.op = "mirror_rbf_solver" /\ last'.s = s /\ last'.err = "ok")
             => Range(PoseNamesOf(WNext, MirroredNode(s))) = Range(PoseNamesOf(W, s))
          /\ (last'.op = "mirror" /\ last'.s = s /\ last'.err = "ok")
             => PoseNamesOf(WNext, MirroredNode(s)) = <<"default">>]_vars

\* a source with two poses has been mirrored with its poses
C15_Witness ==
    /\ last.op = "mirror_rbf_solver" /\ last.err = "ok"
    /\ NumPoses(W, last.s) = 2
    /\ NumPoses(W, MirroredNode(last.s)) = 2

\* C16: in every reachable state, muting a pose of a solver and then unmuting
\* it raises nothing and leaves the scene as it was except that the pose is
\* not muted: its driver, controller and driven matrices, and every other
\* pose's enabled flag, index and matrices, are unchanged.
C16_MuteThenUnmute ==
    \A s \in Solvers, name \in PoseNames :
        (solver[s].exists /\ HasPose(W, s, name))
        => LET muted == MutePose(W, s, name, TRUE)
               unmuted == MutePose(muted, s, name, FALSE)
           IN /\ Ok(muted) /\ IsPoseMuted(muted, s, name)
              /\ Ok(unmuted) /\ ~IsPoseMuted(unmuted, s, name)
              /\ unmuted = [W EXCEPT !.sv[s].targets[PoseIndex(W, s, name) + 1].enable = TRUE]

\* a solver with two poses, one of them muted, whose other pose has just been
\* unmuted
C16_Witness ==
    /\ last.op = "mute_pose" /\ last.err = "ok" /\ ~last.args.mute
    /\ NumPoses(W, last.s) = 2
    /\ ~IsPoseMuted(W, last.s, last.args.name)
    /\ \E name \in PoseNames : HasPose(W, last.s, name) /\ IsPoseMuted(W, last.s, name)

\* C17: rename_pose(old, new) on a solver that has a pose named old: when the
\* solver has a pose named new, the call fails and changes nothing; otherwise
\* the call succeeds and changes only that pose's name, so the pose keeps its
\* index, matrices and enabled flag, and the pose count, the other poses and
\* the driven matrices are unchanged.
C17_RenamePose ==
    [][\A s \in Solvers :
          (last'.op = "rename_pose" /\ last'.s = s /\ HasPose(W, s, last'.args.name))
          => IF HasPose(W, s, last'.args.newName)
             THEN last'.err # "ok" /\ CallChangedNothing
             ELSE /\ last'.err = "ok"
                  /\ WNext = [W EXCEPT !.sv[s].targets[PoseIndex(W, s, last'.args.name) + 1].name =
                                          last'.args.newName]]_vars

\* C18: after remove_drivers(solver, T) the solver's drivers are the previous
\* drivers that are not in T, each once, at indices 0..k-1; when one is left
\* the solver has exactly one pose, "default", whose driver matrices are the
\* remaining drivers' current local matrices, and when none is left it has no
\* pose.
C18_RemoveDrivers ==
    [][\A s \in Solvers :
          (last'.op = "remove_drivers" /\ last'.s = s /\ last'.err = "ok")
          => LET remaining == Range(solver[s].drivers) \ Range(last'.args.ts)
             IN /\ Range(solver'[s].drivers) = remaining
                /\ NumDrivers(WNext, s) = Cardinality(remaining)
                /\ IF remaining = {} THEN NumPoses(WNext, s) = 0
                   ELSE /\ PoseNamesOf(WNext, s) = <<"default">>
                        /\ solver'[s].targets[1].values =
                             CurrentMatrices(W, solver'[s].drivers)]_vars

\* one driver has been removed from a solver: two drivers and the pose
\* "default" are left
C18_Witness ==
    /\ last.op = "remove_drivers" /\ last.err = "ok"
    /\ NumDrivers(W, last.s) = 2
    /\ Len(last.args.ts) = 1
    /\ PoseNamesOf(W, last.s) = <<"default">>

\* C19: every UERBFAPI operation that changes a solver or the set of solvers
\* ends with the extensions holding a context, delivered by
\* on_context_changed, whose current_solver is the API's current_solver after
\* the operation.
C19_ContextFollowsCurrentSolver ==
    [][(/\ last'.op \in {"create_rbf_solver", "delete_rbf_solver", "edit_solver",
                         "mirror_rbf_solver", "add_drivers", "remove_drivers",
                         "add_driven_transforms", "create_pose", "delete_pose",
                         "rename_pose", "api_update_pose", "mute_pose"}
        /\ last'.err = "ok")
       => context' = current']_vars


\* C20: in every state reached by successful calls, each existing solver has
\* exactly one output element per pose, at the poses' indices: the indices of
\* its outputs are 0 .. num_poses - 1 (so a driven transform added next gets
\* one weight connection per existing pose).
C20_OneOutputPerPose ==
    last.err = "ok" =>
        \A s \in Solvers :
            solver[s].exists => solver[s].outputs = 0 .. (NumPoses(W, s) - 1)


\* a call that names a pose the solver does not have, for the operations that
\* need an existing pose
MissingPoseCall ==
    /\ last'.op \in {"delete_pose", "update_pose", "api_update_pose", "go_to_pose"}
    /\ last'.args.name \notin Range(PoseNamesOf(W, last'.s))

\* a call that adds a pose whose name the solver already has, or adds a pose
\* to a solver without drivers
RefusedAddPoseCall ==
    /\ last'.op \in {"add_pose", "create_pose"}
    /\ \/ last'.args.name \in Range(PoseNamesOf(W, last'.s))
       \/ NumDrivers(W, last'.s) = 0

\* C21: delete_pose, update_pose and go_to_pose with a pose name the solver
\* does not have, and add_pose with a name the solver has or on a solver
\* without drivers, raise, and the solvers (their poses included), every pose
\* blender (its recorded matrices included) and the transforms' local
\* matrices are what they were before the call.
C21_RefusedPoseCallChangesNothing ==
    [][(MissingPoseCall \/ RefusedAddPoseCall) =>
         /\ last'.err # "ok"
         /\ solver' = solver
         /\ blender' = blender
         /\ local' = local]_vars

\* a delete_pose call has just failed for a name the solver does not have, on
\* a solver with a pose and a driven binding, with a driver away from rest
C21_Witness ==
    /\ last.op = "delete_pose"
    /\ last.err = "InvalidPose:does not exist"
    /\ last.args.name \notin Range(PoseNamesOf(W, last.s))
    /\ NumPoses(W, last.s) >= 1
    /\ BindingsOf(W, last.s) # {}
    /\ \E t \in Range(solver[last.s].drivers) : local[t] # DefaultMatrix


\* C22: an add_driver or add_drivers call that fails because a transform is
\* already a driver leaves the solver as it was: the driver list and the
\* poses (the "default" pose included) are those before the call.
C22_FailedAddDriverChangesNothing ==
    [][(/\ last'.op \in {"add_driver", "add_drivers"}
        /\ last'.err = "RuntimeError:already has driver")
       => solver'[last'.s] = solver[last'.s]]_vars


\* C23: for any source and target parent matrices, a driven transform whose
\* rotation is (0, 0, 0) is given the rotation (0, 0, 0) on the target.
C23_MirrorRotationIdentity ==
    (rotation.m_rot # <<>> /\ rotation.rotate = <<0, 0, 0>>)
        => rotation.m_rot = <<0, 0, 0>>

\* a rotation of (0, 0, 0) has been mirrored between two different parent
\* matrices, the target's a rotation by 90 degrees with an axis mirrored
C23_Witness ==
    /\ rotation.m_rot # <<>>
    /\ rotation.rotate = <<0, 0, 0>>
    /\ rotation.source_parent_matrix # rotation.target_parent_matrix
    /\ rotation.target_parent_matrix = <<<<0, 1, 0>>, <<1, 0, 0>>, <<0, 0, 1>>>>


\* C24: remove_drivers keeps the remaining drivers in their previous relative
\* order: of two drivers that both remain, the one that had the lower index
\* before the call has the lower index after it.
C24_RemoveDriversKeepsOrder ==
    [][(last'.op = "remove_drivers" /\ last'.err = "ok")
       => LET old == solver[last'.s].drivers
              new == solver'[last'.s].drivers
          IN \A i, j \in 1..Len(old) :
                (i < j /\ old[i] \in Range(new) /\ old[j] \in Range(new))
                => \E k, l \in 1..Len(new) :
                      k < l /\ new[k] = old[i] /\ new[l] = old[j]]_vars


\* C25: set_pose, add_pose_from_current and set_weight of a pose blender,
\* called with index < 0 on an array that holds k >= 1 entries, store the
\* value at index k: the array then holds k + 1 entries and every entry it
\* held is unchanged.
C25_NegativeIndexAppends ==
    [][\A t \in Transforms :
          (last'.err = "ok" /\ last'.args.ts = <<t>>
           /\ last'.op \in {"blender_set_pose", "blender_add_pose_from_current",
                            "blender_set_weight"})
          => LET old == IF last'.op = "blender_set_weight" THEN blender[t].weights
                        ELSE blender[t].poses
                 new == IF last'.op = "blender_set_weight" THEN blender'[t].weights
                        ELSE blender'[t].poses
                 k == Cardinality(DOMAIN old)
             IN k >= 1 => /\ k \in DOMAIN new
                          /\ Cardinality(DOMAIN new) = k + 1
                          /\ \A i \in DOMAIN old : new[i] = old[i]]_vars


\* C26: name_unnamed_poses terminates for every solver state, and when it has
\* returned no pose is unnamed and the pose names are pairwise distinct.
C26_NamingTerminates ==
    /\ <>(naming.pc = "done")
    /\ [](\A s \in Solvers :
            (naming.pc = "done" /\ naming.s = s /\ naming.err = "ok")
            => /\ \A i \in 1..NumPoses(W, s) : solver[s].targets[i].name # ""
               /\ \A i, j \in 1..NumPoses(W, s) :
                     i # j => solver[s].targets[i].name # solver[s].targets[j].name)


\* C27: delete_pose preserves, for every pose that remains, its enabled flag
\* and its function type, distance method and scale factor: what pose()
\* reports of them after the call is what it reported before.
C27_DeletePoseKeepsProperties ==
    [][(last'.op = "delete_pose" /\ last'.err = "ok")
       => \A name \in PoseNames \ {last'.args.name} :
             PoseIndex(W, last'.s, name) # -1
             => LET before == solver[last'.s].targets[PoseIndex(W, last'.s, name) + 1]
                    after == solver'[last'.s].targets[PoseIndex(WNext, last'.s, name) + 1]
                IN /\ PoseIndex(WNext, last'.s, name) # -1
                   /\ after.enable = before.enable
                   /\ after.properties = before.properties]_vars


\* C28: each transform is the driven transform of at most one driven binding
\* across all solvers, and add_driven_transforms on a transform that has a
\* binding creates no binding and changes no solver (its poses included) and
\* no pose blender (its recorded matrices and weights included).
C28_OneBindingPerTransform ==
    /\ [](\A t \in Transforms :
            Cardinality({p \in Solvers \X (1..Cardinality(Transforms)) :
                           /\ p[2] \in DOMAIN solver[p[1]].poseBlenders
                           /\ solver[p[1]].poseBlenders[p[2]] = t}) <= 1)
    /\ [][(/\ last'.op = "add_driven_transforms"
           /\ last'.err = "ok"
           /\ \A i \in DOMAIN last'.args.ts : blender[last'.args.ts[i]].exists)
          => (solver' = solver /\ blender' = blender)]_vars

\* add_driven_transforms has just been called, without an exception, for a
\* transform that another solver binds, with both solvers holding a pose
C28_Witness ==
    /\ last.op = "add_driven_transforms"
    /\ last.err = "ok"
    /\ Len(last.args.ts) = 1
    /\ \E s \in Solvers \ {last.s} :
          /\ last.args.ts[1] \in BindingsOf(W, s)
          /\ blender[last.args.ts[1]].rbfSolver = s
          /\ NumPoses(W, s) >= 1
    /\ NumPoses(W, last.s) >= 1

\* C29: current_solver is None or a solver that exists in the scene in every
\* state the API's operations reach, and assigning a value that is not an
\* RBFNode raises InvalidSolverError and leaves current_solver as it was.
C29_CurrentSolverExists ==
    /\ [](current = NoSolver \/ solver[current].exists)
    /\ [][(last'.op = "set_current_solver" /\ last'.s = NoSolver)
            => last'.err = "InvalidSolverError" /\ current' = current]_vars

\* C30: in every reachable state the driven bindings of a solver all carry
\* the same edit flag, and for a solver that has bindings
\* get_solver_edit_status is true exactly when every one of them is in edit
\* mode.
C30_BindingsShareEditFlag ==
    \A s \in Solvers :
        (solver[s].exists /\ solver[s].poseBlenders # <<>>) =>
            /\ \A t, u \in Range(solver[s].poseBlenders) :
                  blender[t].edit = blender[u].edit
            /\ GetSolverEditStatus(solver, blender, s)
                  <=> \A t \in Range(solver[s].poseBlenders) : blender[t].edit

=============================================================================
